---- MODULE Spec2Model ----
(***************************************************************************)
(* A model of the nusantara-rainforecaster core:                           *)
(*   models/trainer.py  - the persisted classifier/regressor artifacts,    *)
(*                        train, predict, is_trained, checksum,            *)
(*                        auto_train_if_needed;                            *)
(*   data/loader.py     - load_csv, _validate_and_clean,                   *)
(*                        engineer_features, filter_data.                  *)
(*                                                                         *)
(* Quantities with one decimal (RR, temperatures, regressor output) are    *)
(* integers in tenths of their unit; probabilities are integers in         *)
(* percent.  The fitted scikit-learn pipelines are opaque: what a fitted   *)
(* classifier or regressor returns for a row is an input of predict.       *)
(***************************************************************************)
EXTENDS Integers, Sequences, FiniteSets, TLC

VARIABLES
    clf,        \* models/cache/rain_classifier.joblib
    reg,        \* models/cache/rain_regressor.joblib
    runs,       \* number of train() calls that reached persistence
    lastRainy,  \* rows with RR > 0.5 in the dataset of the latest such call
    dataFile,   \* data/weather_data.csv as auto_train_if_needed sees it
    res,        \* what the latest trainer call returned or raised
    raw,        \* the source handed to load_csv and the table read from it
    cleaned,    \* what the latest run of the validator returned or raised
    before,     \* the cleaned table a re-run of the validator was given
    feat,       \* what engineer_features returned for the cleaned table
    filtered,   \* what filter_data returned for the featured table
    month_stats, \* st.session_state.month_stats
    rng,        \* the normal draws numpy's generator gives for each seed used
    synth,      \* per target date, the first and the latest row _infer returned
                \* and the base values each was made from
    calls,      \* number of _infer calls
    hours,      \* the latest estimate_rain_hours call: arguments and result
    forecast,   \* what the latest _run_forecast returned or raised
    training,   \* the train() call in flight: how far it has got
    readers     \* the predict() calls of other threads: how far each has got

storeVars == <<clf, reg, runs, lastRainy, dataFile, res>>

loaderVars == <<raw, cleaned, before, feat, filtered>>

appVars == <<month_stats, rng, synth, calls, hours, forecast>>

threadVars == <<training, readers>>

vars ==
    <<clf, reg, runs, lastRainy, dataFile, res, raw, cleaned, before, feat, filtered,
      month_stats, rng, synth, calls, hours, forecast, training, readers>>

(***************************************************************************)
(* Bounds of the model                                                     *)
(***************************************************************************)
MaxRuns == 2
MaxRainy == 51
MaxDry == 2
MaxRows == 2

(***************************************************************************)
(* Optional values (Python's None)                                         *)
(***************************************************************************)
None == [some |-> FALSE, v |-> 0]

Some(x) == [some |-> TRUE, v |-> x]

Max(a, b) == IF a >= b THEN a ELSE b

\* no MonthlyProfile in the session (month_stats is None)
NoStats == <<>>

\* estimate_rain_hours not called yet
NoHours == [prob |-> 0, mm |-> None, month |-> 0, out |-> None]

\* _run_forecast not called yet
NoForecast == [raised |-> "none", out |-> None]

\* no train() in flight; withReg is the set of runs that persisted a
\* regressor
NoTraining ==
    [pc |-> "idle", run |-> 0, done |-> 0, first |-> FALSE,
     df |-> [columns |-> {}, rainy |-> 0, dry |-> 0], withReg |-> {}]

\* no call in flight in any thread
ThreadsIdle ==
    /\ training = NoTraining
    /\ readers = <<>>

\* a fresh session: no profile, no forecast made, no call in flight
AppIdle ==
    /\ month_stats = NoStats
    /\ rng = <<>>
    /\ synth = <<>>
    /\ calls = 0
    /\ hours = NoHours
    /\ forecast = NoForecast
    /\ ThreadsIdle

(***************************************************************************)
(* models/trainer.py                                                       *)
(***************************************************************************)
FEATURE_COLS ==
    { "Tn", "Tx", "Tavg", "RH_avg", "ss", "ff_x", "ff_avg",
      "month_sin", "month_cos", "doy_sin", "doy_cos",
      "RR_roll7", "Tavg_roll7", "RH_avg_roll7" }

MIN_FEATURES == 6

MIN_RAIN_ROWS == 50

HALF == 50

\* A file of the cache directory: absent, or the pipeline a training run
\* dumped, with the file's permission bits.
NoFile == [exists |-> FALSE, run |-> 0, mode |-> "none"]

File(run, mode) == [exists |-> TRUE, run |-> run, mode |-> mode]

\* joblib.dump(obj, path): creates the file with the default mode, or
\* rewrites an existing file in place, which keeps its mode.
dump(old, run) == File(run, IF old.exists THEN old.mode ELSE "default")

\* Path.chmod(0o600) on a file that exists.
chmod(f) == [f EXCEPT !.mode = "0600"]

\* _load(path): None when the path does not exist, else the pipeline.
_load(f) == IF f.exists THEN Some(f.run) ELSE None

\* avail that takes every column of the frame
avail_every_column(columns) == columns

\* avail = [c for c in FEATURE_COLS if c in df.columns]
avail(columns) == FEATURE_COLS \cap columns

\* The frames train() is called with, as far as train() reads them: the
\* column names, the number of rows and the number of rows with RR > 0.5.
RainyCounts == {0, 2} \cup (MIN_RAIN_ROWS .. MaxRainy)

ColumnChoices ==
    { FEATURE_COLS \cup {"date", "station_id", "RR", "is_rainy"},
      {"Tn", "Tx", "Tavg", "RH_avg", "ss", "ff_x", "date", "station_id", "RR"},
      {"Tn", "Tx", "Tavg", "RH_avg", "ss", "date", "station_id", "RR"},
      {"date", "station_id"},
      FEATURE_COLS \cup {"date", "station_id"} }

Frames ==
    [columns : ColumnChoices, rainy : RainyCounts, dry : 0 .. MaxDry]

\* The classifier stage (train_test_split stratified on the label, fit,
\* accuracy, ROC-AUC) can only complete when both classes have two members.
FitCanSucceed(df) == df.rainy >= 2 /\ df.dry >= 2

\* rain_mask.sum() > 50
TrainsRegressor(df) == df.rainy > MIN_RAIN_ROWS

Result(op, raised, prob, mm, val) ==
    [op |-> op, raised |-> raised, prob |-> prob, mm |-> mm, val |-> val]

NoResult == Result("none", "none", 0, None, None)

\* train(df) with the permission errors left to propagate: the files are
\* written, and the call raises when chmod is refused or REG_PATH is absent.
train_body_chmod_fatal(df, fitOk, chmodOk) ==
    LET keep(raised) ==
            [clf |-> clf, reg |-> reg, runs |-> runs, lastRainy |-> lastRainy,
             raised |-> raised, mae |-> None]
    IN  IF Cardinality(avail(df.columns)) < MIN_FEATURES
        THEN keep("ValueError")
        ELSE IF "RR" \notin df.columns
        THEN keep("KeyError")
        ELSE IF ~fitOk
        THEN keep("FitError")
        ELSE LET run  == runs + 1
                 reg1 == IF TrainsRegressor(df) THEN dump(reg, run) ELSE reg
                 clf1 == dump(clf, run)
                 clf2 == IF chmodOk THEN chmod(clf1) ELSE clf1
                 reg2 == IF chmodOk /\ reg1.exists THEN chmod(reg1) ELSE reg1
             IN  [clf |-> clf2, reg |-> reg2, runs |-> run,
                  lastRainy |-> df.rainy,
                  raised |-> IF ~chmodOk THEN "PermissionError"
                             ELSE IF ~reg1.exists THEN "FileNotFoundError"
                             ELSE "none",
                  mae |-> None]

\* The body of train(df) as a function of the cache directory it finds.
\* fitOk: the classifier stage did not raise; chmodOk: the platform lets the
\* process change the permission bits.  The regressor is dumped before the
\* classifier; CLF_PATH.chmod runs before REG_PATH.chmod, and REG_PATH.chmod
\* raises (swallowed) when the regressor file does not exist.
train_body(df, fitOk, chmodOk) ==
    LET keep(raised) ==
            [clf |-> clf, reg |-> reg, runs |-> runs, lastRainy |-> lastRainy,
             raised |-> raised, mae |-> None]
    IN  IF Cardinality(avail(df.columns)) < MIN_FEATURES
        THEN keep("ValueError")
        ELSE IF "RR" \notin df.columns
        THEN keep("KeyError")
        ELSE IF ~fitOk
        THEN keep("FitError")
        ELSE LET run  == runs + 1
                 reg1 == IF TrainsRegressor(df) THEN dump(reg, run) ELSE reg
                 clf1 == dump(clf, run)
                 clf2 == IF chmodOk THEN chmod(clf1) ELSE clf1
                 reg2 == IF chmodOk /\ reg1.exists THEN chmod(reg1) ELSE reg1
             IN  [clf |-> clf2, reg |-> reg2, runs |-> run,
                  lastRainy |-> df.rainy, raised |-> "none",
                  mae |-> IF TrainsRegressor(df) THEN Some(1) ELSE None]

\* train(df)
train(df, fitOk, chmodOk) ==
    /\ runs < MaxRuns
    /\ fitOk => FitCanSucceed(df)
    /\ LET t == train_body(df, fitOk, chmodOk)
       IN  /\ clf' = t.clf
           /\ reg' = t.reg
           /\ runs' = t.runs
           /\ lastRainy' = t.lastRainy
           /\ res' = Result("train", t.raised, 0, None, t.mae)
    /\ UNCHANGED dataFile
    /\ UNCHANGED loaderVars
    /\ UNCHANGED appVars
    /\ UNCHANGED threadVars

\* data/weather_data.csv: absent, a file load_csv rejects, or a file that
\* loads and features into a frame.
NoData == [exists |-> FALSE, loads |-> FALSE, rainy |-> 0, dry |-> 0]

DataFiles ==
    { NoData,
      [exists |-> TRUE, loads |-> FALSE, rainy |-> 0, dry |-> 0],
      [exists |-> TRUE, loads |-> TRUE, rainy |-> 0, dry |-> 0],
      [exists |-> TRUE, loads |-> TRUE, rainy |-> 2, dry |-> 2],
      [exists |-> TRUE, loads |-> TRUE, rainy |-> MIN_RAIN_ROWS + 1, dry |-> 2] }

\* engineer_features(load_csv(DATA_PATH)): every required and derived column.
DataFrameOf(d) ==
    [columns |-> FEATURE_COLS \cup {"date", "station_id", "RR", "is_rainy"},
     rainy |-> d.rainy, dry |-> d.dry]

\* auto_train_if_needed() without the test for a cached classifier
auto_train_always(fitOk, chmodOk) ==
    /\ runs < MaxRuns
    /\ fitOk => (dataFile.loads /\ FitCanSucceed(DataFrameOf(dataFile)))
    /\ IF ~dataFile.exists \/ ~dataFile.loads
       THEN /\ res' = Result("auto_train", "none", 0, None, None)
            /\ UNCHANGED <<clf, reg, runs, lastRainy>>
       ELSE LET t == train_body(DataFrameOf(dataFile), fitOk, chmodOk)
            IN  /\ clf' = t.clf
                /\ reg' = t.reg
                /\ runs' = t.runs
                /\ lastRainy' = t.lastRainy
                /\ res' = Result("auto_train", "none", 0, None, t.mae)
    /\ UNCHANGED dataFile
    /\ UNCHANGED loaderVars
    /\ UNCHANGED appVars
    /\ UNCHANGED threadVars

\* auto_train_if_needed()
auto_train_if_needed(fitOk, chmodOk) ==
    /\ runs < MaxRuns
    /\ fitOk => (dataFile.loads /\ FitCanSucceed(DataFrameOf(dataFile)))
    /\ IF clf.exists \/ ~dataFile.exists \/ ~dataFile.loads
       THEN /\ res' = Result("auto_train", "none", 0, None, None)
            /\ UNCHANGED <<clf, reg, runs, lastRainy>>
       ELSE LET t == train_body(DataFrameOf(dataFile), fitOk, chmodOk)
            IN  /\ clf' = t.clf
                /\ reg' = t.reg
                /\ runs' = t.runs
                /\ lastRainy' = t.lastRainy
                /\ res' = Result("auto_train", "none", 0, None, t.mae)
    /\ UNCHANGED dataFile
    /\ UNCHANGED loaderVars
    /\ UNCHANGED appVars
    /\ UNCHANGED threadVars

\* What a fitted classifier can return as the positive-class probability
\* (percent), and a fitted regressor as the volume (tenths of a mm).
Probs == {0, 29, 30, 50, 51, 70, 71, 100}

RegOutputs == {-12, 0, 7, 152, 401}

\* estimated_mm with the probability test loosened to >= 0.5.
estimated_mm_at_half(p, g, r) ==
    IF p >= HALF /\ g.some THEN Some(Max(0, r)) ELSE None

\* mm of predict: None unless prob > 0.5 and the regressor loads; then the
\* regressor's output r floored at 0.
estimated_mm(p, g, r) ==
    IF p > HALF /\ g.some THEN Some(Max(0, r)) ELSE None

\* predict(row) with p = clf.predict_proba(X)[:, 1][0], r = reg.predict(X)[0]
predict(p, r) ==
    /\ LET c == _load(clf)
       IN  IF ~c.some
           THEN res' = Result("predict", "RuntimeError", 0, None, None)
           ELSE res' = Result("predict", "none", p,
                              estimated_mm(p, _load(reg), r), None)
    /\ UNCHANGED <<clf, reg, runs, lastRainy, dataFile>>
    /\ UNCHANGED loaderVars
    /\ UNCHANGED appVars
    /\ UNCHANGED threadVars

\* Path.exists()
exists(f) == f.exists

\* is_trained() answering for either artifact instead of the classifier.
is_trained_any_artifact ==
    /\ res' = Result("is_trained", "none", 0, None,
                     Some(IF exists(clf) \/ exists(reg) THEN 1 ELSE 0))
    /\ UNCHANGED <<clf, reg, runs, lastRainy, dataFile>>
    /\ UNCHANGED loaderVars
    /\ UNCHANGED appVars
    /\ UNCHANGED threadVars

\* is_trained()
is_trained ==
    /\ res' = Result("is_trained", "none", 0, None,
                     Some(IF exists(clf) THEN 1 ELSE 0))
    /\ UNCHANGED <<clf, reg, runs, lastRainy, dataFile>>
    /\ UNCHANGED loaderVars
    /\ UNCHANGED appVars
    /\ UNCHANGED threadVars

\* hashlib.md5 of the classifier file's bytes: one digest per dumped pipeline.
md5(f) == f.run

\* checksum()
checksum ==
    /\ res' = Result("checksum", "none", 0, None,
                     IF ~exists(clf) THEN None ELSE Some(md5(clf)))
    /\ UNCHANGED <<clf, reg, runs, lastRainy, dataFile>>
    /\ UNCHANGED loaderVars
    /\ UNCHANGED appVars
    /\ UNCHANGED threadVars

\* The cache directory outlives the process: at start it holds whatever an
\* earlier process left (run 0), possibly nothing.
StoreInit ==
    /\ clf \in {NoFile, File(0, "default"), File(0, "0600")}
    /\ reg \in {NoFile, File(0, "0600")}
    /\ runs = 0
    /\ lastRainy = 0
    /\ dataFile \in DataFiles
    /\ res = NoResult


(***************************************************************************)
(* data/loader.py                                                          *)
(*                                                                         *)
(* A text (a column name, a station identifier, a wind direction) is a     *)
(* sequence of tokens: a whitespace character, a punctuation character, a  *)
(* hyphen, an underscore, or a run of letters and digits.  A table is its  *)
(* set of column names and its rows in order; a row carries its index      *)
(* label (idx), its cells by column name (c), and the position it had in   *)
(* the table the validator was given (orig), which the code does not keep. *)
(***************************************************************************)
Whitespace == {" ", "\t", "\n"}

Alnum == {"96", "96001", "A", "1", "b", "9", "D", "6", "0", "nan", "E", "SW", "e", "sw"}

\* the tokens that are runs of decimal digits
Digits == {"96", "96001", "1", "9", "6", "0"}

\* the regular expression class \w
WordClass == Alnum \cup {"_"}

REQUIRED_COLUMNS ==
    { <<"date">>, <<"Tn">>, <<"Tx">>, <<"Tavg">>, <<"RH_avg">>, <<"RR">>,
      <<"station_id">> }

NUMERIC_COLUMNS ==
    { <<"Tn">>, <<"Tx">>, <<"Tavg">>, <<"RH_avg">>, <<"RR">>, <<"ss">>,
      <<"ff_x">>, <<"ddd_x">>, <<"ff_avg">> }

\* VALID_RANGES, in the units of the source
VALID_RANGES ==
    [n \in NUMERIC_COLUMNS |->
        CASE n = <<"Tn">>     -> <<-10, 50>>
          [] n = <<"Tx">>     -> <<-10, 60>>
          [] n = <<"Tavg">>   -> <<-10, 55>>
          [] n = <<"RH_avg">> -> <<0, 100>>
          [] n = <<"RR">>     -> <<0, 1000>>
          [] n = <<"ss">>     -> <<0, 24>>
          [] n = <<"ff_x">>   -> <<0, 100>>
          [] n = <<"ff_avg">> -> <<0, 100>>
          [] n = <<"ddd_x">>  -> <<0, 360>>]

\* a number of the source in tenths
Tenths(x) == 10 * x

\* Cells.  A numeric column holds numbers (tenths), non-numeric text or
\* nothing; a date column holds d/m/Y text, Y-m-d text, other text, nothing,
\* or (once parsed) a timestamp or NaT; a text column holds a text or nothing.
Num(v) == [k |-> "num", v |-> v]

NaN == [k |-> "nan", v |-> 0]

NonNumeric == [k |-> "text", v |-> 0]

DateCell(k, a, b, c) == [k |-> k, a |-> a, b |-> b, c |-> c]

NaT == DateCell("nat", 0, 0, 0)

Timestamp(y, m, d) == DateCell("ts", y, m, d)

Str(s) == [k |-> "str", s |-> s]

NoText == [k |-> "nan", s |-> <<>>]

RECURSIVE lstrip(_)
lstrip(s) ==
    IF s # <<>> /\ Head(s) \in Whitespace THEN lstrip(Tail(s)) ELSE s

RECURSIVE rstrip(_)
rstrip(s) ==
    IF s # <<>> /\ s[Len(s)] \in Whitespace
    THEN rstrip(SubSeq(s, 1, Len(s) - 1))
    ELSE s

\* str.strip()
strip(s) == rstrip(lstrip(s))

\* re.sub(r"[^\w\-]", "", s)
KeptByPattern(tok) == tok \in WordClass \/ tok = "-"

remove_disallowed(s) == SelectSeq(s, KeptByPattern)

\* str.upper()
upper_token(tok) ==
    CASE tok = "e" -> "E" [] tok = "sw" -> "SW" [] tok = "b" -> "B"
      [] tok = "nan" -> "NAN" [] OTHER -> tok

upper(s) == [i \in 1 .. Len(s) |-> upper_token(s[i])]

\* Series.astype(str): a missing value becomes the text "nan", and a float
\* that holds an integer is written with ".0"
astype_str(cell) ==
    CASE cell.k = "nan"     -> <<"nan">>
      [] cell.k = "float64" -> cell.s \o <<".", "0">>
      [] OTHER              -> cell.s

\* to_datetime that parses text only and coerces a timestamp to NaT
to_datetime_text_only(cell) ==
    CASE cell.k = "dmy" -> Timestamp(cell.c, cell.b, cell.a)
      [] cell.k = "ymd" -> Timestamp(cell.a, cell.b, cell.c)
      [] OTHER          -> NaT

\* pd.to_datetime(cell, dayfirst=True, errors="coerce")
to_datetime(cell) ==
    CASE cell.k = "dmy" -> Timestamp(cell.c, cell.b, cell.a)
      [] cell.k = "ymd" -> Timestamp(cell.a, cell.b, cell.c)
      [] cell.k = "ts"  -> cell
      [] OTHER          -> NaT

\* pd.to_numeric(cell, errors="coerce")
to_numeric(cell) == IF cell.k = "num" THEN cell ELSE NaN

\* (df[col] < lo) | (df[col] > hi)
out_of_range(col, cell) ==
    /\ cell.k = "num"
    /\ \/ cell.v < Tenths(VALID_RANGES[col][1])
       \/ cell.v > Tenths(VALID_RANGES[col][2])

\* clamp that truncates to the nearer bound instead of discarding
clamp_to_bound(col, cell) ==
    IF cell.k # "num" THEN cell
    ELSE IF cell.v < Tenths(VALID_RANGES[col][1]) THEN Num(Tenths(VALID_RANGES[col][1]))
    ELSE IF cell.v > Tenths(VALID_RANGES[col][2]) THEN Num(Tenths(VALID_RANGES[col][2]))
    ELSE cell

\* df.loc[mask, col] = np.nan
clamp(col, cell) == IF out_of_range(col, cell) THEN NaN ELSE cell

NoTable == [columns |-> {}, rows |-> <<>>]

MapRows(t, f(_)) ==
    [t EXCEPT !.rows =
        [i \in 1 .. Len(t.rows) |-> [t.rows[i] EXCEPT !.c = f(t.rows[i].c)]]]

\* strip_columns that leaves the names as read
strip_columns_as_read(t) == t

\* df.columns = df.columns.str.strip()
strip_columns(t) ==
    LET names == {strip(n) : n \in t.columns}
        rename(c) == [n \in names |-> c[CHOOSE o \in t.columns : strip(o) = n]]
    IN  [columns |-> names,
         rows |-> [i \in 1 .. Len(t.rows) |->
                      [t.rows[i] EXCEPT !.c = rename(t.rows[i].c)]]]

\* missing = REQUIRED_COLUMNS - set(df.columns)
missing_columns(t) == REQUIRED_COLUMNS \ t.columns

\* df["date"] = pd.to_datetime(df["date"], dayfirst=True, errors="coerce")
parse_dates(t) ==
    LET f(c) == [c EXCEPT ![<<"date">>] = to_datetime(c[<<"date">>])]
    IN  MapRows(t, f)

HasDate(r) == r.c[<<"date">>].k = "ts"

\* invalid_dates = df["date"].isna().sum()
invalid_dates(t) == Len(t.rows) - Len(SelectSeq(t.rows, HasDate))

\* dropna without subset: drops every row with a missing cell
dropna_any_column(t) ==
    LET Complete(r) == \A n \in t.columns : r.c[n].k \notin {"nan", "nat"}
    IN  [t EXCEPT !.rows = SelectSeq(t.rows, Complete)]

\* dropna_date that drops nothing
dropna_date_keeps_all(t) == t

\* df = df.dropna(subset=["date"])
dropna_date(t) == [t EXCEPT !.rows = SelectSeq(t.rows, HasDate)]

\* for col in NUMERIC_COLUMNS: df[col] = pd.to_numeric(df[col], errors="coerce")
coerce_numeric(t) ==
    LET f(c) == [n \in t.columns |->
                    IF n \in NUMERIC_COLUMNS THEN to_numeric(c[n]) ELSE c[n]]
    IN  MapRows(t, f)

\* mask.sum() for one column
clamped_count(t, col) ==
    LET Hit(r) == out_of_range(col, r.c[col])
    IN  Len(SelectSeq(t.rows, Hit))

\* for col, (lo, hi) in VALID_RANGES.items(): df.loc[mask, col] = np.nan
clamp_ranges(t) ==
    LET f(c) == [n \in t.columns |->
                    IF n \in DOMAIN VALID_RANGES THEN clamp(n, c[n]) ELSE c[n]]
    IN  MapRows(t, f)

\* df["station_id"].astype(str).str.strip().str.replace(r"[^\w\-]", "")
sanitise(cell) == Str(remove_disallowed(strip(astype_str(cell))))

sanitise_station_id(t) ==
    LET f(c) == [c EXCEPT ![<<"station_id">>] = sanitise(c[<<"station_id">>])]
    IN  MapRows(t, f)

\* df["ddd_car"].astype(str).str.strip().str.upper(), if the column is present
normalise_ddd_car(t) ==
    LET f(c) == [c EXCEPT ![<<"ddd_car">>] =
                    Str(upper(strip(astype_str(c[<<"ddd_car">>]))))]
    IN  IF <<"ddd_car">> \in t.columns THEN MapRows(t, f) ELSE t

date_key(r) ==
    r.c[<<"date">>].a * 10000 + r.c[<<"date">>].b * 100 + r.c[<<"date">>].c

\* The row orders sort_values("date") can return: ascending by date; the
\* default sort is not stable, so rows with equal dates come in any order.
RECURSIVE orders(_, _)
orders(rows, S) ==
    IF S = {}
    THEN {<<>>}
    ELSE LET least == {i \in S : \A j \in S : date_key(rows[i]) <= date_key(rows[j])}
         IN  UNION { { <<rows[i]>> \o rest : rest \in orders(rows, S \ {i}) } :
                     i \in least }

\* sort_values that leaves the rows in file order
sort_values_file_order(t) == {t}

sort_values(t) == { [t EXCEPT !.rows = o] : o \in orders(t.rows, 1 .. Len(t.rows)) }

\* reset_index(drop=True)
reset_index(t) ==
    [t EXCEPT !.rows = [i \in 1 .. Len(t.rows) |-> [t.rows[i] EXCEPT !.idx = i - 1]]]

\* the position of each row in the table the validator is given
mark_origin(t) ==
    [t EXCEPT !.rows = [i \in 1 .. Len(t.rows) |-> [t.rows[i] EXCEPT !.orig = i]]]

NoLog == [dropped |-> 0, clamped |-> [n \in {} |-> 0]]

Loaded(status, missing, table, log) ==
    [status |-> status, missing |-> missing, table |-> table, log |-> log]

NotLoaded == Loaded("none", {}, NoTable, NoLog)

\* _validate_and_clean(df): the error naming the missing columns, or one of
\* the cleaned tables the sort can return, with the counts it logs.
_validate_and_clean(t) ==
    LET t1 == strip_columns(mark_origin(t))
    IN  IF missing_columns(t1) # {}
        THEN { Loaded("ValueError: missing required columns",
                      missing_columns(t1), NoTable, NoLog) }
        ELSE LET t2 == parse_dates(t1)
                 t3 == dropna_date(t2)
                 t4 == coerce_numeric(t3)
                 t5 == clamp_ranges(t4)
                 t6 == sanitise_station_id(t5)
                 t7 == normalise_ddd_car(t6)
                 log == [dropped |-> invalid_dates(t2),
                         clamped |-> [n \in (DOMAIN VALID_RANGES) \cap t4.columns |->
                                         clamped_count(t4, n)]]
             IN  { Loaded("ok", {}, reset_index(s), log) : s \in sort_values(t7) }

\* a cell pd.read_csv parses as an integer
is_integer(cell) == cell.k = "str" /\ Len(cell.s) = 1 /\ cell.s[1] \in Digits

Float64(s) == [k |-> "float64", s |-> s]

\* the columns pd.read_csv types float64 although their cells are integers:
\* every cell is an integer or empty, and some cell is empty
float_columns(t) ==
    { n \in t.columns :
        /\ \E i \in 1 .. Len(t.rows) : is_integer(t.rows[i].c[n])
        /\ \E i \in 1 .. Len(t.rows) : t.rows[i].c[n].k = "nan"
        /\ \A i \in 1 .. Len(t.rows) :
               is_integer(t.rows[i].c[n]) \/ t.rows[i].c[n].k = "nan" }

\* pd.read_csv(source): the cells of the file, typed column by column
read_csv(t) ==
    LET F == float_columns(t)
        f(c) == [n \in DOMAIN c |->
                    IF n \in F /\ c[n].k = "str" THEN Float64(c[n].s) ELSE c[n]]
    IN  MapRows(t, f)

\* load_csv(source): a path or a file-like object is read with pd.read_csv;
\* any other source, and a source pd.read_csv cannot parse (no header
\* line), raise ValueError("Failed to read CSV").
load_csv(source) ==
    IF source.kind \in {"path", "stream"} /\ source.parses
    THEN _validate_and_clean(read_csv(source.table))
    ELSE { Loaded("ValueError: failed to read CSV", {}, NoTable, NoLog) }

\* --- engineer_features ---------------------------------------------------

Whole(v) == [k |-> "int", v |-> v]

\* sin or cos of 2*pi*x/period, kept as its argument
Cyclical(fn, x, period) == [k |-> fn, v |-> x, period |-> period]

\* the mean of n values that sum to v (tenths)
Mean(v, n) == [k |-> "mean", v |-> v, n |-> n]

ROLL_WINDOW == 7

is_leap_year(y) == (y % 4 = 0 /\ y % 100 # 0) \/ y % 400 = 0

DaysBeforeMonth == <<0, 31, 59, 90, 120, 151, 181, 212, 243, 273, 304, 334>>

\* Timestamp.dayofyear
dayofyear(ts) ==
    DaysBeforeMonth[ts.b] + ts.c + (IF is_leap_year(ts.a) /\ ts.b > 2 THEN 1 ELSE 0)

\* the proleptic Gregorian ordinal of a date (1 = 0001-01-01, a Monday)
toordinal(ts) ==
    LET y == ts.a - 1
    IN  365 * y + (y \div 4) - (y \div 100) + (y \div 400) + dayofyear(ts)

isoweekday(ts) == ((toordinal(ts) - 1) % 7) + 1

weeks_in_year(y) ==
    LET p(x) == (x + (x \div 4) - (x \div 100) + (x \div 400)) % 7
    IN  IF p(y) = 4 \/ p(y - 1) = 3 THEN 53 ELSE 52

\* Timestamp.isocalendar().week
isoweek(ts) ==
    LET w == (dayofyear(ts) - isoweekday(ts) + 10) \div 7
    IN  IF w < 1 THEN weeks_in_year(ts.a - 1)
        ELSE IF w > weeks_in_year(ts.a) THEN 1
        ELSE w

\* the rows grouped with row i up to and including row i (no shift)
up_to_in_group(t, i) ==
    { j \in 1 .. i :
        t.rows[j].c[<<"station_id">>] = t.rows[i].c[<<"station_id">>] }

\* the positions of the rows grouped with row i that come before it
earlier_in_group(t, i) ==
    { j \in 1 .. (i - 1) :
        t.rows[j].c[<<"station_id">>] = t.rows[i].c[<<"station_id">>] }

\* s.shift(1).rolling(7, min_periods=1): the last 7 rows of the group before
\* row i
window(t, i) ==
    LET P == earlier_in_group(t, i)
    IN  { j \in P : Cardinality({k \in P : k > j}) < ROLL_WINDOW }

RECURSIVE sum_of(_, _, _)
sum_of(t, col, S) ==
    IF S = {} THEN 0
    ELSE LET j == CHOOSE x \in S : TRUE
         IN  t.rows[j].c[col].v + sum_of(t, col, S \ {j})

\* .mean() over the window, skipping missing values; NaN when none is left
rolling_mean(t, i, col) ==
    LET W == { j \in window(t, i) : t.rows[j].c[col].k = "num" }
    IN  IF W = {} THEN NaN ELSE Mean(sum_of(t, col, W), Cardinality(W))

\* a comparison that also takes 0.5 itself
is_rain_from_half(cell) == cell.k = "num" /\ cell.v >= 5

\* df[col] > 0.5 (False for a missing value)
is_rain(cell) == cell.k = "num" /\ cell.v > 5

Derived ==
    { <<"year">>, <<"month">>, <<"day_of_year">>, <<"week_of_year">>,
      <<"month_sin">>, <<"month_cos">>, <<"doy_sin">>, <<"doy_cos">>,
      <<"is_rainy">> }

Rolled == { <<"RR">>, <<"Tavg">>, <<"RH_avg">> }

roll7(n) == <<n[1] \o "_roll7">>

\* the column a _roll7 column is computed from
rolled_from(n) == CHOOSE b \in Rolled : roll7(b) = n

\* engineer_features(df): a copy of df with the derived columns added
engineer_features(t) ==
    LET rolled == { roll7(b) : b \in Rolled \cap t.columns }
        cols   == t.columns \cup Derived \cup rolled
        cell(i, n) ==
            LET c  == t.rows[i].c
                ts == c[<<"date">>]
            IN  CASE n = <<"year">>         -> Whole(ts.a)
                  [] n = <<"month">>        -> Whole(ts.b)
                  [] n = <<"day_of_year">>  -> Whole(dayofyear(ts))
                  [] n = <<"week_of_year">> -> Whole(isoweek(ts))
                  [] n = <<"month_sin">>    -> Cyclical("sin", ts.b, 12)
                  [] n = <<"month_cos">>    -> Cyclical("cos", ts.b, 12)
                  [] n = <<"doy_sin">>      -> Cyclical("sin", dayofyear(ts), 365)
                  [] n = <<"doy_cos">>      -> Cyclical("cos", dayofyear(ts), 365)
                  [] n = <<"is_rainy">>     -> Whole(IF is_rain(c[<<"RR">>]) THEN 1 ELSE 0)
                  [] n \in rolled           -> rolling_mean(t, i, rolled_from(n))
                  [] OTHER                  -> c[n]
    IN  [columns |-> cols,
         rows |-> [i \in 1 .. Len(t.rows) |->
                      [t.rows[i] EXCEPT !.c = [n \in cols |-> cell(i, n)]]]]

\* --- filter_data ---------------------------------------------------------

Args(station_ids, date_start, date_end, rain_only) ==
    [station_ids |-> station_ids, date_start |-> date_start,
     date_end |-> date_end, rain_only |-> rain_only]

\* an optional date argument: None, or the ISO text of a date
NoArg == DateCell("nan", 0, 0, 0)

Iso(y, m, d) == DateCell("ymd", y, m, d)

ts_key(ts) == ts.a * 10000 + ts.b * 100 + ts.c

\* filtered["RR"] > 0.5
rain_only_mask(cell) == cell.k = "num" /\ cell.v > 5

\* filter_data that leaves the table unfiltered when no requested station
\* occurs in it
filter_data_unfiltered_when_none(t, args) ==
    LET valid    == { t.rows[i].c[<<"station_id">>].s : i \in 1 .. Len(t.rows) }
        safe_ids == { x \in args.station_ids : x \in valid }
        ByStation(r) == safe_ids # {} => r.c[<<"station_id">>].s \in safe_ids
        FromStart(r) == args.date_start.k # "nan" =>
                            date_key(r) >= ts_key(to_datetime(args.date_start))
        ToEnd(r)     == args.date_end.k # "nan" =>
                            date_key(r) <= ts_key(to_datetime(args.date_end))
        Rainy(r)     == args.rain_only => rain_only_mask(r.c[<<"RR">>])
        Keep(r)      == ByStation(r) /\ FromStart(r) /\ ToEnd(r) /\ Rainy(r)
    IN  reset_index([t EXCEPT !.rows = SelectSeq(t.rows, Keep)])

\* filter_data(df, station_ids, date_start, date_end, rain_only)
filter_data(t, args) ==
    LET valid    == { t.rows[i].c[<<"station_id">>].s : i \in 1 .. Len(t.rows) }
        safe_ids == { x \in args.station_ids : x \in valid }
        ByStation(r) == args.station_ids # {} => r.c[<<"station_id">>].s \in safe_ids
        FromStart(r) == args.date_start.k # "nan" =>
                            date_key(r) >= ts_key(to_datetime(args.date_start))
        ToEnd(r)     == args.date_end.k # "nan" =>
                            date_key(r) <= ts_key(to_datetime(args.date_end))
        Rainy(r)     == args.rain_only => rain_only_mask(r.c[<<"RR">>])
        Keep(r)      == ByStation(r) /\ FromStart(r) /\ ToEnd(r) /\ Rainy(r)
    IN  reset_index([t EXCEPT !.rows = SelectSeq(t.rows, Keep)])

(***************************************************************************)
(* The sources and rows the loader is run on                               *)
(***************************************************************************)
AllColumns ==
    REQUIRED_COLUMNS \cup
    { <<"ss">>, <<"ff_x">>, <<"ddd_x">>, <<"ff_avg">>, <<"ddd_car">> }

\* column names as written in a file whose header pads some of them
Padded(n) ==
    CASE n = <<"date">>       -> <<" ", "date">>
      [] n = <<"RR">>         -> <<"RR", " ">>
      [] n = <<"station_id">> -> <<"\t", "station_id", " ">>
      [] OTHER                -> n

Source(kind, parses, fmt, columns) ==
    [kind |-> kind, parses |-> parses, fmt |-> fmt,
     table |-> [columns |-> columns, rows |-> <<>>]]

Sources ==
    { Source("stream", TRUE, "dmy", AllColumns),
      Source("path", TRUE, "ymd",
             {Padded(n) : n \in REQUIRED_COLUMNS \cup {<<"ss">>}}),
      Source("stream", TRUE, "dmy", AllColumns \ {<<"RR">>, <<"Tn">>}),
      Source("path", TRUE, "ymd",
             {Padded(n) : n \in AllColumns \ {<<"station_id">>}}),
      Source("path", FALSE, "dmy", {}),
      Source("int", FALSE, "dmy", {}) }

\* typical readings (first row of the test fixture)
Typical ==
    [n \in NUMERIC_COLUMNS |->
        CASE n = <<"Tn">>     -> 214
          [] n = <<"Tx">>     -> 302
          [] n = <<"Tavg">>   -> 271
          [] n = <<"RH_avg">> -> 820
          [] n = <<"RR">>     -> 90
          [] n = <<"ss">>     -> 5
          [] n = <<"ff_x">>   -> 70
          [] n = <<"ff_avg">> -> 50
          [] n = <<"ddd_x">>  -> 900]

\* a numeric cell placed relative to the column's valid range
Reading(n, where) ==
    CASE where = "typical" -> Num(Typical[n])
      [] where = "lo"      -> Num(Tenths(VALID_RANGES[n][1]))
      [] where = "hi"      -> Num(Tenths(VALID_RANGES[n][2]))
      [] where = "below"   -> Num(Tenths(VALID_RANGES[n][1]) - 1)
      [] where = "above"   -> Num(Tenths(VALID_RANGES[n][2]) + 1)
      [] where = "text"    -> NonNumeric
      [] OTHER             -> NaN

Day(d, m, y) == [k |-> "date", d |-> d, m |-> m, y |-> y]

BadDate == [k |-> "text", d |-> 0, m |-> 0, y |-> 0]

NoDate == [k |-> "nan", d |-> 0, m |-> 0, y |-> 0]

RowSpec(date, station, where, except, car) ==
    [date |-> date, station |-> station, where |-> where, except |-> except,
     car |-> car]

Nothing == [n \in {} |-> NaN]

RowSpecs ==
    { RowSpec(Day(2, 1, 2010), Str(<<"96">>), "typical", Nothing, Str(<<"E">>)),
      RowSpec(Day(1, 1, 2010), Str(<<" ", "A", "-", "1", " ">>), "lo", Nothing,
              Str(<<" ", "sw">>)),
      RowSpec(Day(3, 1, 2010), Str(<<"b", "_", "6">>), "hi", Nothing, NoText),
      RowSpec(BadDate, Str(<<"96">>), "typical", Nothing, Str(<<"E">>)),
      RowSpec(NoDate, Str(<<"A", "-", "1">>), "above", Nothing, Str(<<"E">>)),
      RowSpec(Day(7, 1, 2010), Str(<<"9", ";", " ", "D">>), "below", Nothing,
              Str(<<"e">>)),
      RowSpec(Day(6, 1, 2010), Str(<<"b", "\t", "6", "\n">>), "typical",
              <<"Tavg">> :> Num(9990), Str(<<"SW">>)),
      RowSpec(Day(4, 1, 2010), NoText, "typical",
              <<"RR">> :> NonNumeric, Str(<<"E">>)),
      RowSpec(Day(1, 2, 2010), Str(<<";", "A", "-", "1", ".", " ">>), "nan",
              <<"RR">> :> Num(5), Str(<<"E">>)),
      RowSpec(Day(2, 1, 2010), Str(<<"A", "-", "1">>), "above",
              <<"RR">> :> Num(6), Str(<<"E">>)),
      RowSpec(Day(5, 1, 2010), Str(<<"96">>), "typical",
              <<"RR">> :> NaN, Str(<<"E">>)) }

\* the date as the file writes it
Written(date, fmt) ==
    CASE date.k = "date" /\ fmt = "dmy" -> DateCell("dmy", date.d, date.m, date.y)
      [] date.k = "date" /\ fmt = "ymd" -> DateCell("ymd", date.y, date.m, date.d)
      [] date.k = "text"                -> DateCell("text", 0, 0, 0)
      [] OTHER                          -> DateCell("nan", 0, 0, 0)

CellOf(rs, n, fmt) ==
    CASE n = <<"date">>       -> Written(rs.date, fmt)
      [] n = <<"station_id">> -> rs.station
      [] n = <<"ddd_car">>    -> rs.car
      [] OTHER -> IF n \in DOMAIN rs.except THEN rs.except[n]
                  ELSE Reading(n, rs.where)

\* one more line of the file; pd.read_csv numbers the rows from 0
AppendRow(rs) ==
    /\ cleaned.status = "none"
    /\ raw.parses
    /\ Len(raw.table.rows) < MaxRows
    /\ raw' = [raw EXCEPT !.table.rows =
                  Append(@, [idx |-> Len(@), orig |-> Len(@) + 1,
                             c |-> [n \in raw.table.columns |->
                                       CellOf(rs, strip(n), raw.fmt)]])]
    /\ UNCHANGED <<cleaned, before, feat, filtered>>
    /\ UNCHANGED storeVars
    /\ UNCHANGED appVars
    /\ UNCHANGED threadVars

\* load_csv(source)
LoadCsv ==
    /\ cleaned.status = "none"
    /\ cleaned' \in load_csv(raw)
    /\ UNCHANGED <<raw, before, feat, filtered>>
    /\ UNCHANGED storeVars
    /\ UNCHANGED appVars
    /\ UNCHANGED threadVars

\* _validate_and_clean run again on the Dataset it returned
Revalidate ==
    /\ cleaned.status = "ok"
    /\ feat = NoTable
    /\ before' = cleaned.table
    /\ cleaned' \in _validate_and_clean(cleaned.table)
    /\ UNCHANGED <<raw, feat, filtered>>
    /\ UNCHANGED storeVars
    /\ UNCHANGED appVars
    /\ UNCHANGED threadVars

\* feat = engineer_features(df)
EngineerFeatures ==
    /\ cleaned.status = "ok"
    /\ before = NoTable
    /\ feat = NoTable
    /\ feat' = engineer_features(cleaned.table)
    /\ UNCHANGED <<raw, cleaned, before, filtered>>
    /\ UNCHANGED storeVars
    /\ UNCHANGED appVars
    /\ UNCHANGED threadVars

FilterArgs ==
    { Args({}, NoArg, NoArg, FALSE),
      Args({<<"96">>}, NoArg, NoArg, FALSE),
      Args({<<"ZZ">>}, NoArg, NoArg, FALSE),
      Args({<<"A", "-", "1">>, <<"ZZ">>, <<"9", ";", " ", "D">>}, NoArg, NoArg, FALSE),
      Args({}, Iso(2010, 1, 2), Iso(2010, 1, 3), FALSE),
      Args({}, NoArg, NoArg, TRUE) }

\* filter_data(feat, ...)
FilterData(args) ==
    /\ feat # NoTable
    /\ filtered = NoTable
    /\ filtered' = filter_data(feat, args)
    /\ UNCHANGED <<raw, cleaned, before, feat>>
    /\ UNCHANGED storeVars
    /\ UNCHANGED appVars
    /\ UNCHANGED threadVars

LoaderIdle ==
    /\ raw = Source("path", FALSE, "dmy", {})
    /\ cleaned = NotLoaded
    /\ before = NoTable
    /\ feat = NoTable
    /\ filtered = NoTable

StoreIdle ==
    /\ clf = NoFile
    /\ reg = NoFile
    /\ runs = 0
    /\ lastRainy = 0
    /\ dataFile = NoData
    /\ res = NoResult

LoaderInit ==
    /\ raw \in Sources
    /\ cleaned = NotLoaded
    /\ before = NoTable
    /\ feat = NoTable
    /\ filtered = NoTable
    /\ StoreIdle
    /\ AppIdle

LoaderNext ==
    \/ \E rs \in RowSpecs : AppendRow(rs)
    \/ LoadCsv
    \/ Revalidate
    \/ EngineerFeatures
    \/ \E args \in FilterArgs : FilterData(args)

LoaderSpec == LoaderInit /\ [][LoaderNext]_vars

Init == StoreInit /\ LoaderIdle /\ AppIdle

Next ==
    \/ \E df \in Frames, fitOk \in BOOLEAN, chmodOk \in BOOLEAN :
           train(df, fitOk, chmodOk)
    \/ \E p \in Probs, r \in RegOutputs : predict(p, r)
    \/ \E fitOk \in BOOLEAN, chmodOk \in BOOLEAN :
           auto_train_if_needed(fitOk, chmodOk)
    \/ is_trained
    \/ checksum

Spec == Init /\ [][Next]_vars

(***************************************************************************)
(* Claims about the model store (specification Spec)                       *)
(***************************************************************************)

\* C1: once the latest train() call was on a dataset with 50 or fewer rows
\* having RR > 0.5, no regressor artifact is persisted, and a predict()
\* that follows returns no volume.
C1_NoRegressorAfterSmallTrain ==
    (runs > 0 /\ lastRainy <= MIN_RAIN_ROWS) =>
        /\ ~reg.exists
        /\ (res.op = "predict" => ~res.mm.some)

\* C2: predict() returns a volume exactly when the probability is above 0.5
\* and a regressor artifact exists; a returned volume is >= 0; with only the
\* classifier persisted it returns (prob, None) without raising; at
\* probability exactly 0.5 there is no volume.
C2_VolumeGating ==
    (res.op = "predict" /\ clf.exists) =>
        /\ res.raised = "none"
        /\ res.mm.some <=> (res.prob > HALF /\ reg.exists)
        /\ res.mm.some => res.mm.v >= 0
        /\ ~reg.exists => res.mm = None
        /\ res.prob = HALF => res.mm = None

C2_Witness ==
    /\ res.op = "predict"
    /\ res.raised = "none"
    /\ res.prob > HALF
    /\ clf.exists
    /\ ~reg.exists
    /\ res.mm = None

\* C3: is_trained() is true exactly when the classifier artifact exists,
\* checksum() is None exactly when it does not, predict() raises the
\* not-trained error exactly when it does not (whatever the regressor
\* file), and a train() that returns leaves the classifier persisted.
C3_TrainedIffClassifier ==
    /\ res.op = "is_trained" => (res.val = Some(1) <=> clf.exists)
    /\ res.op = "is_trained" => res.val \in {Some(0), Some(1)}
    /\ res.op = "checksum" => (res.val = None <=> ~clf.exists)
    /\ res.op = "predict" => (res.raised = "RuntimeError" <=> ~clf.exists)
    /\ (res.op = "train" /\ res.raised = "none") => clf.exists

C3_Witness ==
    /\ res.op = "is_trained"
    /\ res.val = Some(0)
    /\ ~clf.exists
    /\ reg.exists

(***************************************************************************)
(* Claims about the loader (specification LoaderSpec)                      *)
(***************************************************************************)

\* the table the latest run of the validator was given
ValidatorInput == IF before = NoTable THEN raw.table ELSE before

\* a text without the whitespace at its two ends
Trimmed(n) ==
    LET at == {i \in 1 .. Len(n) : n[i] \notin Whitespace}
    IN  IF at = {} THEN <<>>
        ELSE SubSeq(n, CHOOSE i \in at : \A j \in at : i <= j,
                       CHOOSE i \in at : \A j \in at : i >= j)

TrimmedColumns == {Trimmed(n) : n \in ValidatorInput.columns}

\* the column of the validator's input that each trimmed name comes from
InputColumns ==
    [n \in TrimmedColumns |-> CHOOSE x \in ValidatorInput.columns : Trimmed(x) = n]

\* the cell the validator was given for cleaned row r and trimmed name n
Given(src, r, n) == ValidatorInput.rows[r.orig].c[src[n]]

Lo(n) == 10 * VALID_RANGES[n][1]

Hi(n) == 10 * VALID_RANGES[n][2]

Parseable(cell) == cell.k \in {"dmy", "ymd", "ts"}

ParseableRows ==
    LET dates == {o \in ValidatorInput.columns : Trimmed(o) = <<"date">>}
    IN  { i \in 1 .. Len(ValidatorInput.rows) :
            \E o \in dates : Parseable(ValidatorInput.rows[i].c[o]) }

RowsOf(t) == {t.rows[i] : i \in 1 .. Len(t.rows)}

\* a table without the origin marks
Data(t) ==
    [columns |-> t.columns,
     rows |-> [i \in 1 .. Len(t.rows) |-> [idx |-> t.rows[i].idx, c |-> t.rows[i].c]]]

\* C4: a table lacking required columns (names trimmed) fails with the
\* validation error that lists exactly the missing required columns and
\* yields no Dataset; a table with all of them does not fail.
C4_MissingColumnsListed ==
    (cleaned.status # "none" /\ raw.parses) =>
        LET lacking == REQUIRED_COLUMNS \ TrimmedColumns
        IN  /\ lacking # {} =>
                /\ cleaned.status = "ValueError: missing required columns"
                /\ cleaned.missing = lacking
                /\ cleaned.table = NoTable
            /\ lacking = {} => cleaned.status = "ok"

C4_Witness ==
    /\ cleaned.status = "ValueError: missing required columns"
    /\ cleaned.missing = {<<"station_id">>}
    /\ \E n \in raw.table.columns : Trimmed(n) # n /\ Trimmed(n) \in REQUIRED_COLUMNS
    /\ Len(raw.table.rows) > 0

\* C5: for every field with a valid range, an input below lo or above hi is
\* cleaned to missing, an input within [lo, hi] (bounds included) is kept
\* unchanged, and every non-missing cleaned value lies within the range.
C5_OutOfRangeBecomesMissing ==
    cleaned.status = "ok" =>
        LET src == InputColumns
        IN  \A r \in RowsOf(cleaned.table) :
            \A n \in (DOMAIN VALID_RANGES) \cap cleaned.table.columns :
                LET given == Given(src, r, n)
                    got   == r.c[n]
                IN  /\ (given.k = "num" /\ (given.v < Lo(n) \/ given.v > Hi(n)))
                           => got = NaN
                    /\ (given.k = "num" /\ Lo(n) <= given.v /\ given.v <= Hi(n))
                           => got = given
                    /\ got.k \in {"num", "nan"}
                    /\ got.k = "num" => (Lo(n) <= got.v /\ got.v <= Hi(n))

C5_Witness ==
    /\ cleaned.status = "ok"
    /\ before = NoTable
    /\ \E r \in RowsOf(cleaned.table) :
           /\ Given(InputColumns, r, <<"Tavg">>) = Num(Hi(<<"Tavg">>))
           /\ r.c[<<"Tavg">>] = Num(Hi(<<"Tavg">>))
    /\ \E r \in RowsOf(cleaned.table) :
           /\ Given(InputColumns, r, <<"Tavg">>) = Num(Hi(<<"Tavg">>) + 1)
           /\ r.c[<<"Tavg">>] = NaN

\* C6: the cleaned Dataset has exactly one row for every input row whose
\* date is parseable; rows with unparseable dates are dropped (and counted)
\* without an error; a row with an out-of-range or non-numeric cell is kept,
\* with that cell missing and its other numeric cells as given.
C6_RowsKeptByDate ==
    (cleaned.status # "none" /\ raw.parses /\ REQUIRED_COLUMNS \subseteq TrimmedColumns) =>
        /\ cleaned.status = "ok"
        /\ {r.orig : r \in RowsOf(cleaned.table)} = ParseableRows
        /\ Len(cleaned.table.rows) = Cardinality(ParseableRows)
        /\ cleaned.log.dropped = Len(ValidatorInput.rows) - Cardinality(ParseableRows)
        /\ LET src == InputColumns
           IN  \A r \in RowsOf(cleaned.table) :
               \A n \in NUMERIC_COLUMNS \cap cleaned.table.columns :
                   LET given == Given(src, r, n)
                       bad   == \/ given.k # "num"
                                \/ given.v < Lo(n)
                                \/ given.v > Hi(n)
                   IN  r.c[n] = IF bad THEN NaN ELSE given

C6_Witness ==
    /\ cleaned.status = "ok"
    /\ before = NoTable
    /\ Len(raw.table.rows) = 2
    /\ Len(cleaned.table.rows) = 1
    /\ \E r \in RowsOf(cleaned.table) :
           /\ Given(InputColumns, r, <<"Tavg">>) = Num(9990)
           /\ r.c[<<"Tavg">>] = NaN
           /\ r.c[<<"Tn">>] = Given(InputColumns, r, <<"Tn">>)

Allowed(tok) == tok \in Alnum \/ tok = "_" \/ tok = "-"

OnlyAllowed(t) ==
    \A r \in RowsOf(t) :
        /\ r.c[<<"station_id">>].k = "str"
        /\ \A i \in 1 .. Len(r.c[<<"station_id">>].s) :
               Allowed(r.c[<<"station_id">>].s[i])

\* C7: every station_id of a cleaned Dataset holds only alphanumerics,
\* underscores and hyphens; it is the input identifier with exactly the
\* other characters removed; engineer_features and filter_data keep it.
C7_StationIdSanitised ==
    /\ cleaned.status = "ok" =>
           /\ OnlyAllowed(cleaned.table)
           /\ LET src == InputColumns
              IN  \A r \in RowsOf(cleaned.table) :
                  LET given == Given(src, r, <<"station_id">>)
                  IN  given.k = "str" =>
                          r.c[<<"station_id">>] = Str(SelectSeq(given.s, Allowed))
    /\ feat # NoTable =>
           /\ Len(feat.rows) = Len(cleaned.table.rows)
           /\ \A i \in 1 .. Len(feat.rows) :
                  feat.rows[i].c[<<"station_id">>] =
                      cleaned.table.rows[i].c[<<"station_id">>]
    /\ filtered # NoTable =>
           \A r \in RowsOf(filtered) :
               \E g \in RowsOf(feat) :
                   /\ g.orig = r.orig
                   /\ g.c[<<"station_id">>] = r.c[<<"station_id">>]

\* C8: the loader's output is ascending by date and its index is 0..n-1.
C8_SortedWithFreshIndex ==
    cleaned.status = "ok" =>
        /\ \A i, j \in 1 .. Len(cleaned.table.rows) :
               i < j => date_key(cleaned.table.rows[i]) <= date_key(cleaned.table.rows[j])
        /\ \A i \in 1 .. Len(cleaned.table.rows) : cleaned.table.rows[i].idx = i - 1

C8_Witness ==
    /\ cleaned.status = "ok"
    /\ before = NoTable
    /\ Len(cleaned.table.rows) = 2
    /\ cleaned.table.rows[1].orig = 2
    /\ date_key(cleaned.table.rows[1]) < date_key(cleaned.table.rows[2])
    /\ cleaned.table.rows[1].c[<<"station_id">>] # cleaned.table.rows[2].c[<<"station_id">>]

\* C9: with the required columns present, an input without rows, or with
\* no row whose date is parseable, yields an empty Dataset and no error.
C9_EmptyDatasetNotError ==
    ( /\ cleaned.status # "none"
      /\ raw.parses
      /\ REQUIRED_COLUMNS \subseteq TrimmedColumns
      /\ ParseableRows = {} ) =>
        /\ cleaned.status = "ok"
        /\ cleaned.table.rows = <<>>
        /\ cleaned.table.columns = TrimmedColumns

C9_Witness ==
    /\ cleaned.status = "ok"
    /\ before = NoTable
    /\ Len(raw.table.rows) = 2
    /\ cleaned.table.rows = <<>>
    /\ cleaned.log.dropped = 2

\* C10 as stated: a re-run of the validator on its own output clamps
\* nothing, drops nothing and returns the same Dataset.
C10_RerunReturnsSameDataset ==
    before # NoTable =>
        /\ cleaned.status = "ok"
        /\ cleaned.log.dropped = 0
        /\ \A n \in DOMAIN cleaned.log.clamped : cleaned.log.clamped[n] = 0
        /\ Data(cleaned.table) = Data(before)

\* C10 as amended: a re-run of the validator on its own output clamps
\* nothing, drops nothing and returns the same rows with the same cells
\* (missing values stay missing), ascending by date with index 0..n-1; rows
\* that share a date may come back in another order.
C10_RerunKeepsRows ==
    before # NoTable =>
        /\ cleaned.status = "ok"
        /\ cleaned.log.dropped = 0
        /\ \A n \in DOMAIN cleaned.log.clamped : cleaned.log.clamped[n] = 0
        /\ cleaned.table.columns = before.columns
        /\ Len(cleaned.table.rows) = Len(before.rows)
        /\ {r.orig : r \in RowsOf(cleaned.table)} = 1 .. Len(before.rows)
        /\ \A i \in 1 .. Len(cleaned.table.rows) :
               LET r == cleaned.table.rows[i]
               IN  /\ r.c = before.rows[r.orig].c
                   /\ r.idx = i - 1
                   /\ date_key(r) = date_key(before.rows[r.orig])
        /\ \A i, j \in 1 .. Len(cleaned.table.rows) :
               i < j => date_key(cleaned.table.rows[i]) <= date_key(cleaned.table.rows[j])

C10_Witness ==
    /\ before # NoTable
    /\ cleaned.status = "ok"
    /\ Len(before.rows) = 2
    /\ cleaned.table.rows[1].orig = 2
    /\ \E r \in RowsOf(cleaned.table) : r.c[<<"Tavg">>] = NaN

\* the values a rolled column's cell is changed to
Replacements == { NaN, Num(0), Num(77) }

\* table t with the cell of row j in column n replaced by v
Changed(t, j, n, v) == [t EXCEPT !.rows[j].c[n] = v]

\* row j is row i itself, a later row, or a row of another station
NotBefore(t, i, j) ==
    \/ j >= i
    \/ t.rows[j].c[<<"station_id">>] # t.rows[i].c[<<"station_id">>]

\* C11: the rolling features of a row depend only on the earlier rows of its
\* station: replacing RR, Tavg or RH_avg of the row itself, of a later row
\* or of a row of another station leaves the row's _roll7 features as they
\* were.
C11_RollingIgnoresOwnAndLater ==
    feat # NoTable =>
        LET t == cleaned.table
            R == Rolled \cap t.columns
        IN  \A i, j \in 1 .. Len(t.rows) :
                NotBefore(t, i, j) =>
                    \A n \in R : \A v \in Replacements :
                        LET g == engineer_features(Changed(t, j, n, v))
                        IN  \A b \in R :
                                g.rows[i].c[roll7(b)] = feat.rows[i].c[roll7(b)]

C11_Witness ==
    /\ feat # NoTable
    /\ Len(feat.rows) = 2
    /\ feat.rows[1].c[<<"station_id">>] = feat.rows[2].c[<<"station_id">>]
    /\ feat.rows[1].c[<<"RR">>] = Num(0)
    /\ feat.rows[2].c[<<"RR">>] = Num(6)
    /\ feat.rows[2].c[<<"RR_roll7">>] = Mean(0, 1)
    /\ feat.rows[1].c[<<"RR_roll7">>] = NaN

\* the days from the date of row j to the date of row i
days_between(t, j, i) ==
    toordinal(t.rows[i].c[<<"date">>]) - toordinal(t.rows[j].c[<<"date">>])

\* the rows of row i's station dated 1 to 7 days before row i
trailing_days(t, i) ==
    { j \in 1 .. Len(t.rows) :
        /\ t.rows[j].c[<<"station_id">>] = t.rows[i].c[<<"station_id">>]
        /\ days_between(t, j, i) >= 1
        /\ days_between(t, j, i) <= ROLL_WINDOW }

\* C12: each rolling feature is the mean of the station's non-missing values
\* dated within the 7 days before the row's day, and missing when there is
\* none.
C12_RollingMeanOfTrailingDays ==
    feat # NoTable =>
        LET t == cleaned.table
        IN  \A i \in 1 .. Len(t.rows) : \A b \in Rolled \cap t.columns :
                LET W == { j \in trailing_days(t, i) : t.rows[j].c[b].k = "num" }
                IN  feat.rows[i].c[roll7(b)] =
                        IF W = {} THEN NaN ELSE Mean(sum_of(t, b, W), Cardinality(W))

(***************************************************************************)
(* The test fixture: four consecutive January days of one station, and two *)
(* more days with rainfall at and just above the rain threshold            *)
(***************************************************************************)
MaxLines == 4

FixtureRow(d, tn, tx, tavg, rh, rr, ss, ffx, dddx, ffavg, car) ==
    RowSpec(Day(d, 1, 2010), Str(<<"96001">>), "typical",
            (<<"Tn">> :> Num(tn)) @@ (<<"Tx">> :> Num(tx)) @@
            (<<"Tavg">> :> Num(tavg)) @@ (<<"RH_avg">> :> Num(rh)) @@
            (<<"RR">> :> Num(rr)) @@ (<<"ss">> :> Num(ss)) @@
            (<<"ff_x">> :> Num(ffx)) @@ (<<"ddd_x">> :> Num(dddx)) @@
            (<<"ff_avg">> :> Num(ffavg)),
            Str(<<car>>))

VALID_CSV ==
    << FixtureRow(1, 214, 302, 271, 820, 90, 5, 70, 900, 50, "E"),
       FixtureRow(2, 210, 296, 257, 950, 240, 2, 60, 900, 40, "E"),
       FixtureRow(3, 202, 268, 245, 980, 0, 0, 50, 900, 40, "E"),
       FixtureRow(4, 210, 292, 258, 900, 0, 1, 40, 2250, 30, "SW") >>

ThresholdRows ==
    { FixtureRow(5, 214, 302, 271, 820, 5, 5, 70, 900, 50, "E"),
      FixtureRow(6, 214, 302, 271, 820, 6, 5, 70, 900, 50, "E") }

Lines == { VALID_CSV[i] : i \in 1 .. Len(VALID_CSV) } \cup ThresholdRows

\* one more line of the fixture file
AppendLine(rs) ==
    /\ cleaned.status = "none"
    /\ Len(raw.table.rows) < MaxLines
    /\ raw' = [raw EXCEPT !.table.rows =
                  Append(@, [idx |-> Len(@), orig |-> Len(@) + 1,
                             c |-> [n \in raw.table.columns |->
                                       CellOf(rs, strip(n), raw.fmt)]])]
    /\ UNCHANGED <<cleaned, before, feat, filtered>>
    /\ UNCHANGED storeVars
    /\ UNCHANGED appVars
    /\ UNCHANGED threadVars

FixtureInit ==
    /\ raw = Source("stream", TRUE, "dmy", AllColumns)
    /\ cleaned = NotLoaded
    /\ before = NoTable
    /\ feat = NoTable
    /\ filtered = NoTable
    /\ StoreIdle
    /\ AppIdle

FixtureNext ==
    \/ \E rs \in Lines : AppendLine(rs)
    \/ LoadCsv
    \/ EngineerFeatures

FixtureSpec == FixtureInit /\ [][FixtureNext]_vars

\* the file holds exactly the four lines of VALID_CSV, in any order
IsValidCsv ==
    /\ Len(raw.table.rows) = Len(VALID_CSV)
    /\ { raw.table.rows[i].c : i \in 1 .. Len(raw.table.rows) } =
           { [n \in AllColumns |-> CellOf(VALID_CSV[i], n, "dmy")] :
               i \in 1 .. Len(VALID_CSV) }

\* C13: is_rainy is 1 when RR > 0.5 and 0 otherwise, never anything else;
\* the four January days with RR = 9, 24, 0, 0 are all retained, in
\* chronological order, with is_rainy = 1, 1, 0, 0.
C13_IsRainyLabel ==
    feat # NoTable =>
        /\ \A i \in 1 .. Len(feat.rows) :
               LET rr    == feat.rows[i].c[<<"RR">>]
                   label == feat.rows[i].c[<<"is_rainy">>]
               IN  /\ label \in {Whole(0), Whole(1)}
                   /\ label = Whole(1) <=> (rr.k = "num" /\ rr.v > 5)
        /\ IsValidCsv =>
               /\ Len(feat.rows) = 4
               /\ \A i \in 1 .. 4 :
                      /\ feat.rows[i].c[<<"date">>] = Timestamp(2010, 1, i)
                      /\ feat.rows[i].c[<<"RR">>] = VALID_CSV[i].except[<<"RR">>]
               /\ [i \in 1 .. 4 |-> feat.rows[i].c[<<"is_rainy">>].v] = <<1, 1, 0, 0>>

C13_Witness ==
    /\ feat # NoTable
    /\ IsValidCsv
    /\ raw.table.rows[1].c[<<"date">>] = DateCell("dmy", 4, 1, 2010)
    /\ raw.table.rows[4].c[<<"date">>] = DateCell("dmy", 1, 1, 2010)
    /\ [i \in 1 .. 4 |-> feat.rows[i].c[<<"is_rainy">>].v] = <<1, 1, 0, 0>>

(***************************************************************************)
(* models/trainer.py: the training frame of a featured table and the       *)
(* MonthlyProfile                                                          *)
(***************************************************************************)

\* a target that is 0 only for a reading known to be at most 0.5
y_c_dry_when_known(cell) == IF cell.k = "num" /\ cell.v <= 5 THEN 0 ELSE 1

\* (df["RR"] > 0.5).astype(int), the classifier's target
y_c(cell) == IF cell.k = "num" /\ cell.v > 5 THEN 1 ELSE 0

\* rain_mask = df["RR"] > 0.5, the regressor's rows
rain_mask(cell) == cell.k = "num" /\ cell.v > 5

Positions(t) == 1 .. Len(t.rows)

\* a featured table as train() reads it
FrameOf(t) ==
    [columns |-> { n[1] : n \in t.columns },
     rainy   |-> Cardinality({ i \in Positions(t) : rain_mask(t.rows[i].c[<<"RR">>]) }),
     dry     |-> Cardinality({ i \in Positions(t) : y_c(t.rows[i].c[<<"RR">>]) = 0 })]

MONTH_FLOOR == 5

RECURSIVE Gcd(_, _)
Gcd(a, b) == IF b = 0 THEN a ELSE Gcd(b, a % b)

\* the float p/q, in lowest terms (readings are in tenths)
Frac(p, q) ==
    LET g == Gcd(IF p < 0 THEN -p ELSE p, q)
    IN  [k |-> "frac", p |-> p \div g, q |-> q \div g]

\* Series.notna()
notna(cell) == cell.k # "nan"

\* the denominator of a cell's value: a rolling mean is v / n
den(cell) == IF cell.k = "mean" THEN cell.n ELSE 1

\* row j sorts before row k by the value of column col
sorts_before(t, col, j, k) ==
    LET a == t.rows[j].c[col]
        b == t.rows[k].c[col]
    IN  \/ a.v * den(b) < b.v * den(a)
        \/ a.v * den(b) = b.v * den(a) /\ j < k

\* Series.median() of column col over the rows S, missing values skipped
median(t, col, S) ==
    LET V == { j \in S : notna(t.rows[j].c[col]) }
        n == Cardinality(V)
        rank(j) == Cardinality({ k \in V : sorts_before(t, col, k, j) })
        lo == t.rows[CHOOSE j \in V : rank(j) = (n - 1) \div 2].c[col]
        hi == t.rows[CHOOSE j \in V : rank(j) = n \div 2].c[col]
    IN  Frac(lo.v * den(hi) + hi.v * den(lo), 2 * den(lo) * den(hi))

\* med(col): the median, or 0.0 when the column is absent or all missing
med(t, S, col) ==
    IF col \in t.columns /\ (\E j \in S : notna(t.rows[j].c[col]))
    THEN median(t, col, S)
    ELSE Frac(0, 1)

\* the rows of the month, however few
month_rows_no_floor(t, month) ==
    { i \in Positions(t) : t.rows[i].c[<<"date">>].b = month }

\* m = df[df["date"].dt.month == month]; if len(m) < 5: m = df
month_rows(t, month) ==
    LET m == { i \in Positions(t) : t.rows[i].c[<<"date">>].b = month }
    IN  IF Cardinality(m) < MONTH_FLOOR THEN Positions(t) ELSE m

\* a rain test that counts every day with any rainfall
any_rainfall(cell) == cell.k = "num" /\ cell.v > 0

\* (m["RR"] > 0.5) in rain_prob
rain_prob_mask(cell) == cell.k = "num" /\ cell.v > 5

\* m["RR"] > 0.5 in avg_rain_mm
avg_rain_mask(cell) == cell.k = "num" /\ cell.v > 5

\* Series.mean() of RR over the rows S; NaN for no rows
mean_of(t, col, S) ==
    IF S = {} THEN NaN ELSE Frac(sum_of(t, col, S), Cardinality(S))

\* float((m["RR"] > 0.5).mean()); NaN for an empty m
rain_prob(t, S) ==
    IF <<"RR">> \notin t.columns THEN Frac(1, 2)
    ELSE IF S = {} THEN NaN
    ELSE Frac(Cardinality({ i \in S : rain_prob_mask(t.rows[i].c[<<"RR">>]) }),
              Cardinality(S))

\* float(m.loc[m["RR"] > 0.5, "RR"].mean())
avg_rain_mm(t, S) ==
    IF <<"RR">> \notin t.columns THEN Frac(50, 1)
    ELSE mean_of(t, <<"RR">>, { i \in S : avg_rain_mask(t.rows[i].c[<<"RR">>]) })

Medians == { "Tn", "Tx", "Tavg", "RH_avg", "ss", "ff_x", "ff_avg" }

RollMedians == { "RR_roll7", "Tavg_roll7", "RH_avg_roll7" }

StatFields == Medians \cup RollMedians \cup { "rain_prob", "avg_rain_mm" }

\* the column a _roll7 entry falls back to
plain(f) ==
    CASE f = "RR_roll7" -> "RR" [] f = "Tavg_roll7" -> "Tavg" [] OTHER -> "RH_avg"

\* stats[month] computed over the rows m
entry_over(t, m) ==
    [f \in StatFields |->
        CASE f \in Medians       -> med(t, m, <<f>>)
          [] f \in RollMedians   -> IF <<f>> \in t.columns
                                    THEN med(t, m, <<f>>)
                                    ELSE med(t, m, <<plain(f)>>)
          [] f = "rain_prob"     -> rain_prob(t, m)
          [] OTHER               -> avg_rain_mm(t, m)]

\* get_monthly_stats(df): one entry per month; the months that fall back to
\* the whole frame share its entry
get_monthly_stats(t) ==
    LET whole == entry_over(t, Positions(t))
    IN  [month \in 1 .. 12 |->
            IF month_rows(t, month) = Positions(t)
            THEN whole
            ELSE entry_over(t, month_rows(t, month))]

(***************************************************************************)
(* app.py: _startup on a data file of one station's days                   *)
(***************************************************************************)
MaxDays == 6

\* the days the data file can hold: (month, RR in tenths of a mm)
DayKinds == { <<1, 6>>, <<1, 5>>, <<2, 240>> }

\* the line of day d of the file, of 2010 or 2011 in turn; sunshine is never
\* recorded
DayLine(d, kind) ==
    RowSpec(Day(d, kind[1], 2010 + (d % 2)), Str(<<"96001">>), "typical",
            (<<"RR">> :> Num(kind[2])) @@ (<<"ss">> :> NaN), Str(<<"E">>))

\* one more day at the end of data/weather_data.csv
AppendDay(kind) ==
    /\ cleaned.status = "none"
    /\ Len(raw.table.rows) < MaxDays
    /\ raw' = [raw EXCEPT !.table.rows =
                  Append(@, [idx |-> Len(@), orig |-> Len(@) + 1,
                             c |-> [n \in raw.table.columns |->
                                       CellOf(DayLine(Len(@) + 1, kind), strip(n),
                                              raw.fmt)]])]
    /\ UNCHANGED <<cleaned, before, feat, filtered>>
    /\ UNCHANGED storeVars
    /\ UNCHANGED appVars
    /\ UNCHANGED threadVars

\* _startup() and the session assignment that follows it: load, feature and
\* profile the data file; train on it when no classifier is cached.  Every
\* exception is caught and reported; when get_monthly_stats raises
\* (profileOk is FALSE) feat is already assigned and stats stays None.
_startup ==
    /\ cleaned.status = "none"
    /\ runs < MaxRuns
    /\ \E out \in load_csv(raw) :
           /\ cleaned' = out
           /\ IF out.status = "ok"
              THEN /\ feat' = engineer_features(out.table)
                   /\ \E profileOk \in BOOLEAN :
                          month_stats' = IF profileOk THEN get_monthly_stats(feat')
                                         ELSE NoStats
                   /\ IF exists(clf)
                      THEN UNCHANGED storeVars
                      ELSE \E fitOk \in BOOLEAN, chmodOk \in BOOLEAN :
                           LET df == FrameOf(feat')
                               t  == train_body(df, fitOk, chmodOk)
                           IN  /\ fitOk => FitCanSucceed(df)
                               /\ clf' = t.clf
                               /\ reg' = t.reg
                               /\ runs' = t.runs
                               /\ lastRainy' = t.lastRainy
                               /\ res' = Result("train", t.raised, 0, None, t.mae)
                               /\ UNCHANGED dataFile
              ELSE /\ UNCHANGED <<feat, month_stats>>
                   /\ UNCHANGED storeVars
    /\ UNCHANGED <<raw, before, filtered, rng, synth, calls, hours, forecast>>
    /\ UNCHANGED threadVars

ProfileInit ==
    /\ raw = Source("path", TRUE, "ymd", REQUIRED_COLUMNS \cup {<<"ss">>})
    /\ cleaned = NotLoaded
    /\ before = NoTable
    /\ feat = NoTable
    /\ filtered = NoTable
    /\ clf \in {NoFile, File(0, "0600")}
    /\ reg = NoFile
    /\ runs = 0
    /\ lastRainy = 0
    /\ dataFile = NoData
    /\ res = NoResult
    /\ AppIdle

ProfileNext ==
    \/ \E kind \in DayKinds : AppendDay(kind)
    \/ _startup

ProfileSpec == ProfileInit /\ [][ProfileNext]_vars

\* the rows of a featured table whose RR is above 0.5 mm, among the rows S
Wet(t, S) ==
    { i \in S : t.rows[i].c[<<"RR">>].k = "num" /\ t.rows[i].c[<<"RR">>].v > 5 }

RainOnly == Args({}, NoArg, NoArg, TRUE)

\* C14: the label, the classifier's target, the regressor's row selection,
\* the profile's rain probability and mean rainy volume, and the rain-only
\* filter all take a row as rainy exactly when its RR is above 0.5.
C14_OneRainThreshold ==
    feat # NoTable =>
        LET W    == Wet(feat, Positions(feat))
            kept == { r.orig : r \in RowsOf(filter_data(feat, RainOnly)) }
        IN  /\ \A i \in Positions(feat) :
                   LET rr == feat.rows[i].c[<<"RR">>]
                   IN  /\ feat.rows[i].c[<<"is_rainy">>] = Whole(1) <=> i \in W
                       /\ y_c(rr) = 1 <=> i \in W
                       /\ rain_mask(rr) <=> i \in W
                       /\ feat.rows[i].orig \in kept <=> i \in W
            /\ FrameOf(feat).rainy = Cardinality(W)
            /\ FrameOf(feat).dry = Len(feat.rows) - Cardinality(W)
            /\ (res.op = "train" /\ res.raised = "none") =>
                   lastRainy = Cardinality(W)
            /\ month_stats # NoStats =>
                   \A month \in 1 .. 12 :
                       LET m  == month_rows(feat, month)
                           Wm == Wet(feat, m)
                       IN  /\ month_stats[month]["rain_prob"] =
                                 IF m = {} THEN NaN
                                 ELSE Frac(Cardinality(Wm), Cardinality(m))
                           /\ month_stats[month]["avg_rain_mm"] =
                                 IF Wm = {} THEN NaN
                                 ELSE Frac(sum_of(feat, <<"RR">>, Wm), Cardinality(Wm))

C14_Witness ==
    /\ month_stats # NoStats
    /\ res.op = "train"
    /\ res.raised = "none"
    /\ lastRainy = 2
    /\ Len(feat.rows) = 5
    /\ \E i \in Positions(feat) : feat.rows[i].c[<<"RR">>] = Num(5)
    /\ \E i \in Positions(feat) : feat.rows[i].c[<<"RR">>] = Num(6)
    /\ month_stats[1]["rain_prob"] = Frac(2, 5)

\* the rows of a featured table dated in the given calendar month
InMonth(t, month) ==
    { i \in Positions(t) : t.rows[i].c[<<"date">>].b = month }

\* C15: the profile has an entry for each month 1..12; the entry of a month
\* with at least 5 rows (of any year) is computed from those rows, and the
\* entry of any other month from the whole dataset.
C15_EntryPerMonth ==
    month_stats # NoStats =>
        /\ DOMAIN month_stats = 1 .. 12
        /\ LET whole == entry_over(feat, Positions(feat))
           IN  \A month \in 1 .. 12 :
                   month_stats[month] =
                       IF Cardinality(InMonth(feat, month)) >= 5
                       THEN entry_over(feat, InMonth(feat, month))
                       ELSE whole

C15_Witness ==
    /\ month_stats # NoStats
    /\ Len(feat.rows) = 6
    /\ Cardinality(InMonth(feat, 1)) = 5
    /\ Cardinality(InMonth(feat, 2)) = 1
    /\ \E i, j \in InMonth(feat, 1) :
           feat.rows[i].c[<<"date">>].a # feat.rows[j].c[<<"date">>].a
    /\ month_stats[1] # month_stats[2]
    /\ month_stats[2] = month_stats[12]

\* C16: every field of every month's entry is a defined number, and a field
\* with no non-missing value to compute it from (an absent or all-missing
\* column, no rainy row, an empty dataset) is zero.
C16_EveryFieldDefined ==
    month_stats # NoStats =>
        \A month \in 1 .. 12 :
            LET m == month_rows(feat, month)
            IN  /\ \A f \in StatFields : month_stats[month][f].k = "frac"
                /\ Wet(feat, m) = {} => month_stats[month]["avg_rain_mm"] = Frac(0, 1)
                /\ m = {} => \A f \in StatFields : month_stats[month][f] = Frac(0, 1)
                /\ month_stats[month]["ss"] = Frac(0, 1)
                /\ month_stats[month]["ff_x"] = Frac(0, 1)

\* C17: from every state of the cache directory, train() raises the
\* insufficient-features error exactly when fewer than 6 of the 14 feature
\* columns are in the frame, and then leaves both artifacts as they were.
C17_InsufficientFeatures ==
    /\ Cardinality(FEATURE_COLS) = 14
    /\ \A df \in Frames, fitOk \in BOOLEAN, chmodOk \in BOOLEAN :
           LET t == train_body(df, fitOk, chmodOk)
           IN  (fitOk => FitCanSucceed(df)) =>
                   /\ t.raised = "ValueError" <=>
                          Cardinality(FEATURE_COLS \cap df.columns) < 6
                   /\ t.raised = "ValueError" => (t.clf = clf /\ t.reg = reg)

C17_Witness ==
    /\ res.op = "train"
    /\ res.raised = "ValueError"
    /\ runs = 1
    /\ clf = File(1, "0600")
    /\ reg = File(1, "0600")

\* C18: from every state of the cache directory, a train() call that gets
\* as far as persisting returns its metrics and leaves the classifier it
\* wrote in place, also when chmod is refused or the regressor file does
\* not exist.
C18_ChmodFailureNotFatal ==
    \A df \in Frames, chmodOk \in BOOLEAN :
        LET t == train_body(df, TRUE, chmodOk)
        IN  ( /\ FitCanSucceed(df)
              /\ Cardinality(FEATURE_COLS \cap df.columns) >= 6
              /\ "RR" \in df.columns
              /\ ~chmodOk \/ ~t.reg.exists ) =>
                /\ t.raised = "none"
                /\ t.mae.some <=> df.rainy > 50
                /\ t.clf.exists
                /\ t.clf.run = runs + 1
                /\ t.runs = runs + 1

C18_Witness ==
    /\ res.op = "train"
    /\ res.raised = "none"
    /\ runs = 1
    /\ clf = File(1, "default")
    /\ ~reg.exists

(***************************************************************************)
(* models/trainer.py: estimate_rain_hours                                  *)
(***************************************************************************)
\* the probabilities (percent) and volumes (tenths of a mm) the estimator is
\* called with
WindowProbs == { 0, 29, 30, 31, 50, 70, 71, 100 }

Volumes == { None } \cup { Some(v) : v \in { 0, 10, 149, 150, 151, 400, 401, 900 } }

\* a no-rain test that also takes 0.3 itself as no rain
no_rain_up_to(prob) == prob <= 30

\* if prob < 0.3
no_rain(prob) == prob < 30

\* a season test that takes no month as wet
wet_season_never(month) == FALSE

\* wet_season = month in [11, 12, 1, 2, 3, 4]
wet_season(month) == month \in { 11, 12, 1, 2, 3, 4 }

\* "mm and mm > limit": mm is given, not zero, and above limit (mm)
above(mm, limit) == mm.some /\ mm.v # 0 /\ mm.v > Tenths(limit)

\* the dict estimate_rain_hours returns; an hour h stands for the text
\* "hh:00", None for an absent one
Window(start, stop, peak, description) ==
    [start |-> start, stop |-> stop, peak |-> peak, description |-> description]

\* estimate_rain_hours(prob, mm, month)
estimate_rain_hours(prob, mm, month) ==
    IF no_rain(prob)
    THEN Window(None, None, None, <<"Tidak ada hujan">>)
    ELSE LET wet     == wet_season(month)
             start_h == IF above(mm, 40) THEN (IF wet THEN 12 ELSE 13)
                        ELSE IF above(mm, 15) THEN 13
                        ELSE 14
             end_h   == IF above(mm, 40) THEN (IF wet THEN 19 ELSE 18)
                        ELSE IF above(mm, 15) THEN 17
                        ELSE 16
             peak_h  == IF above(mm, 40) THEN 14 ELSE 15
             start   == IF wet /\ prob > 70 THEN Max(9, start_h - 2) ELSE start_h
         IN  Window(Some(start), Some(end_h), Some(peak_h),
                    <<"Hujan diperkirakan", start, end_h, "WIB">>)

(***************************************************************************)
(* app.py: _infer, the estimator of a date's feature row                   *)
(***************************************************************************)
MaxReadings == 2

MaxInfer == 3

\* where the readings of a line of the data file lie in their valid ranges
ReadingKinds == { "lo", "hi" }

\* one more line at the end of data/weather_data.csv, all of January 2010
AppendReading(where) ==
    /\ cleaned.status = "none"
    /\ raw.parses
    /\ Len(raw.table.rows) < MaxReadings
    /\ raw' = [raw EXCEPT !.table.rows =
                  Append(@, [idx |-> Len(@), orig |-> Len(@) + 1,
                             c |-> [n \in raw.table.columns |->
                                       CellOf(RowSpec(Day(Len(@) + 1, 1, 2010),
                                                      Str(<<"96001">>), where,
                                                      Nothing, Str(<<"E">>)),
                                              strip(n), raw.fmt)]])]
    /\ UNCHANGED <<cleaned, before, feat, filtered>>
    /\ UNCHANGED storeVars
    /\ UNCHANGED appVars
    /\ UNCHANGED threadVars

\* datetime.date(year, month, day)
Date(year, month, day) == [year |-> year, month |-> month, day |-> day]

\* the dates forecasts are asked for
TargetDates ==
    { Date(2010, 1, 11), Date(2010, 11, 1) }

\* the fields _infer perturbs, in the order it draws their noise
DrawOrder ==
    << "Tavg", "Tn", "Tx", "RH_avg", "ss", "ff_x", "ff_avg",
       "RR_roll7", "Tavg_roll7", "RH_avg_roll7" >>

\* the position of field f in DrawOrder
draw_of(f) == CHOOSE i \in 1 .. Len(DrawOrder) : DrawOrder[i] = f

\* the scale argument of each jitter call, in tenths
SCALE ==
    [f \in Medians \cup RollMedians |->
        CASE f = "Tavg"         -> 12
          [] f = "Tn"           -> 10
          [] f = "Tx"           -> 15
          [] f = "RH_avg"       -> 40
          [] f = "ss"           -> 15
          [] f = "ff_x"         -> 10
          [] f = "ff_avg"       -> 8
          [] f = "RR_roll7"     -> 15
          [] f = "Tavg_roll7"   -> 8
          [] OTHER              -> 25]

\* base when the session holds no profile
DEFAULT_BASE ==
    [f \in Medians \cup RollMedians |->
        CASE f = "Tn"           -> Frac(220, 1)
          [] f = "Tx"           -> Frac(320, 1)
          [] f = "Tavg"         -> Frac(270, 1)
          [] f = "RH_avg"       -> Frac(820, 1)
          [] f = "ss"           -> Frac(50, 1)
          [] f = "ff_x"         -> Frac(60, 1)
          [] f = "ff_avg"       -> Frac(40, 1)
          [] f = "RR_roll7"     -> Frac(50, 1)
          [] f = "Tavg_roll7"   -> Frac(270, 1)
          [] OTHER              -> Frac(820, 1)]

\* seed = target_date.year * 10000 + target_date.month * 100 + target_date.day
seed(target) == target.year * 10000 + target.month * 100 + target.day

\* a generator that is created once and keeps drawing from call to call
shared_generator(target, n) == n

\* rng = np.random.default_rng(seed): a new generator in every call, whose
\* draws depend on the seed alone; n is the number of calls made before
default_rng(target, n) == seed(target)

\* the standard normal deviates a generator can give for the ten draws of a
\* call, in hundredths of a standard deviation
Draws ==
    { [i \in 1 .. 10 |-> 0],
      [i \in 1 .. 10 |-> 600],
      [i \in 1 .. 10 |-> -600],
      << 37, 650, -650, 12, -333, -700, 700, 45, -5, 101 >> }

\* round(n / d) to the nearest integer, halves to the even one (d > 0)
round(n, d) ==
    LET f == n \div d
        r == n - f * d
    IN  IF 2 * r < d THEN f
        ELSE IF 2 * r > d THEN f + 1
        ELSE IF f % 2 = 0 THEN f ELSE f + 1

Min(a, b) == IF a <= b THEN a ELSE b

\* jitter that applies the lower clamp only
jitter_lo_only(val, scale, z, lo, hi) ==
    LET d == 100 * val.q
        v == 100 * val.p + scale * z * val.q
    IN  round(Max(lo * d, v), d)

\* jitter(val, scale, lo, hi) when the generator draws z: val plus the noise
\* scale * z, clamped to lo and to hi (if given), rounded to one decimal
jitter(val, scale, z, lo, hi) ==
    LET d  == 100 * val.q
        v  == 100 * val.p + scale * z * val.q
        v1 == Max(lo * d, v)
        v2 == IF hi.some THEN Min(hi.v * d, v1) ELSE v1
    IN  round(v2, d)

\* the row _infer returns for base when the generator draws z
synthesize(base, z) ==
    LET j(f, lo, hi) == jitter(base[f], SCALE[f], z[draw_of(f)], lo, hi)
        Tavg  == j("Tavg", -50, Some(500))
        Tn    == j("Tn", -50, Some(Tavg))
        Tx    == j("Tx", Tavg, Some(550))
        RH    == j("RH_avg", 300, Some(1000))
        ss    == j("ss", 0, Some(120))
        ff_x  == j("ff_x", 0, Some(300))
        ff_a  == j("ff_avg", 0, Some(ff_x))
        RR7   == j("RR_roll7", 0, None)
        Tavg7 == j("Tavg_roll7", -50, Some(500))
        RH7   == j("RH_avg_roll7", 300, Some(1000))
    IN  [f \in DOMAIN base |->
            CASE f = "Tavg"         -> Frac(Tavg, 1)
              [] f = "Tn"           -> Frac(Tn, 1)
              [] f = "Tx"           -> Frac(Tx, 1)
              [] f = "RH_avg"       -> Frac(RH, 1)
              [] f = "ss"           -> Frac(ss, 1)
              [] f = "ff_x"         -> Frac(ff_x, 1)
              [] f = "ff_avg"       -> Frac(ff_a, 1)
              [] f = "RR_roll7"     -> Frac(RR7, 1)
              [] f = "Tavg_roll7"   -> Frac(Tavg7, 1)
              [] f = "RH_avg_roll7" -> Frac(RH7, 1)
              [] OTHER              -> base[f]]

\* a base that is the profile's own entry: assigning the perturbed fields
\* writes them into the session's profile
profile_after_aliased(stats, month, row) ==
    IF stats # NoStats THEN [stats EXCEPT ![month] = row] ELSE stats

\* base = dict(stats.get(month, ...)): the perturbed fields are assigned to a
\* copy of the entry, so the session's profile keeps its values
profile_after(stats, month, row) == stats

\* the body of _infer(target_date), called once the module-level _startup()
\* has run: the row is recorded in synth
infer_call(target) ==
    /\ cleaned.status # "none"
    /\ calls < MaxInfer
    /\ \E z \in Draws :
           LET key  == default_rng(target, calls)
               base == IF month_stats # NoStats
                       THEN month_stats[target.month]
                       ELSE DEFAULT_BASE
               row  == synthesize(base, IF key \in DOMAIN rng THEN rng[key] ELSE z)
           IN  /\ key \in DOMAIN rng => z = rng[key]
               /\ rng' = IF key \in DOMAIN rng THEN rng ELSE rng @@ (key :> z)
               /\ calls' = calls + 1
               /\ month_stats' = profile_after(month_stats, target.month, row)
               /\ synth' =
                      IF target \in DOMAIN synth
                      THEN [synth EXCEPT ![target].latest = row,
                                         ![target].latestAt = calls',
                                         ![target].latestBase = base]
                      ELSE synth @@ (target :> [first |-> row, firstAt |-> calls',
                                                firstBase |-> base,
                                                latest |-> row, latestAt |-> calls',
                                                latestBase |-> base])

\* _infer(target_date)
_infer(target) ==
    /\ infer_call(target)
    /\ UNCHANGED <<hours, forecast>>
    /\ UNCHANGED threadVars
    /\ UNCHANGED loaderVars
    /\ UNCHANGED storeVars

\* def estimate_rain_hours(prob, mm, month): the parameters it accepts
ESTIMATE_PARAMS == { "prob", "mm", "month" }

\* the keyword arguments _run_forecast adds to the three positional ones
FORECAST_KEYWORDS == { "ss", "rh" }

\* a call that is accepted whatever keywords it passes
accepts_any(params, keywords) == TRUE

\* Python accepts a call when every keyword names a parameter
accepts(params, keywords) == keywords \subseteq params

\* the probabilities the cached classifier returns for a synthesized row
ForecastProbs == { 29, 71 }

\* _run_forecast(target_date): _infer, _build_row, predict, then
\* estimate_rain_hours(prob, mm, month, ss=..., rh=...)
_run_forecast(target) ==
    /\ infer_call(target)
    /\ \E p \in ForecastProbs, r \in { 152 } :
           LET c     == _load(clf)
               mm    == estimated_mm(p, _load(reg), r)
               feats == synth'[target].latest
               w     == estimate_rain_hours(p, mm, target.month)
           IN  IF ~c.some
               THEN /\ res' = Result("predict", "RuntimeError", 0, None, None)
                    /\ forecast' = [raised |-> "RuntimeError", out |-> None]
                    /\ hours' = hours
               ELSE /\ res' = Result("predict", "none", p, mm, None)
                    /\ IF accepts(ESTIMATE_PARAMS, FORECAST_KEYWORDS)
                       THEN /\ hours' = [prob |-> p, mm |-> mm,
                                         month |-> target.month, out |-> Some(w)]
                            /\ forecast' =
                                   [raised |-> "none",
                                    out |-> Some([prob |-> p, mm |-> mm,
                                                  hours |-> w, feats |-> feats])]
                       ELSE /\ hours' = hours
                            /\ forecast' = [raised |-> "TypeError", out |-> None]
    /\ UNCHANGED <<clf, reg, runs, lastRainy, dataFile>>
    /\ UNCHANGED loaderVars
    /\ UNCHANGED threadVars

InferInit ==
    /\ raw \in { Source("path", TRUE, "ymd", AllColumns),
                 Source("path", FALSE, "ymd", {}) }
    /\ cleaned = NotLoaded
    /\ before = NoTable
    /\ feat = NoTable
    /\ filtered = NoTable
    /\ clf \in {NoFile, File(0, "0600")}
    /\ reg = NoFile
    /\ runs = 0
    /\ lastRainy = 0
    /\ dataFile = NoData
    /\ res = NoResult
    /\ AppIdle

\* an uploaded file of days of one station
UploadFile(columns, kinds) ==
    [Source("stream", TRUE, "dmy", columns) EXCEPT !.table.rows =
        [i \in 1 .. Len(kinds) |->
            [idx |-> i - 1, orig |-> i,
             c |-> [n \in columns |-> CellOf(DayLine(i, kinds[i]), strip(n), "dmy")]]]]

\* the files a user uploads in the Data tab
Uploads ==
    { UploadFile(AllColumns, << >>),
      UploadFile(AllColumns, << <<1, 6>> >>),
      UploadFile(AllColumns, << <<1, 5>>, <<2, 240>> >>),
      UploadFile(AllColumns \ {<<"RR">>}, << <<1, 6>> >>),
      Source("stream", FALSE, "dmy", {}) }

\* the Data tab's upload handler, offered while the session has no dataset:
\* df_feat is assigned before get_monthly_stats runs, and only a ValueError
\* is caught
Upload(up) ==
    /\ cleaned.status # "none"
    /\ feat = NoTable
    /\ \E out \in load_csv(up) :
           /\ cleaned' = out
           /\ IF out.status = "ok"
              THEN /\ feat' = engineer_features(out.table)
                   /\ \E profileOk \in BOOLEAN :
                          month_stats' = IF profileOk THEN get_monthly_stats(feat')
                                         ELSE month_stats
              ELSE UNCHANGED <<feat, month_stats>>
    /\ UNCHANGED <<raw, before, filtered, rng, synth, calls, hours, forecast>>
    /\ UNCHANGED threadVars
    /\ UNCHANGED storeVars

InferNext ==
    \/ \E where \in ReadingKinds : AppendReading(where)
    \/ _startup
    \/ \E up \in Uploads : Upload(up)
    \/ \E target \in TargetDates : _run_forecast(target)
    \/ \E target \in TargetDates : _infer(target)

InferSpec == InferInit /\ [][InferNext]_vars

\* the calendar dates of two years
CalendarDates ==
    { Date(y, m, d) : y \in 2010 .. 2011, m \in 1 .. 12, d \in 1 .. 31 }

\* two different calendar dates have different seeds
SeedsDiffer ==
    \A a \in CalendarDates, b \in CalendarDates : a # b => seed(a) # seed(b)

\* C19: with the profile fixed, every call of _infer for a date returns the
\* row its first call returned, whatever calls for other dates came between;
\* and two different calendar dates never have the same seed.
C19_SameDateSameRow ==
    /\ \A target \in DOMAIN synth :
           synth[target].latestBase = synth[target].firstBase =>
               synth[target].latest = synth[target].first
    /\ SeedsDiffer

C19_Witness ==
    /\ calls = 3
    /\ month_stats # NoStats
    /\ \E a \in DOMAIN synth, b \in DOMAIN synth :
           /\ synth[a].firstAt = 1
           /\ synth[b].firstAt = 2
           /\ synth[a].latestAt = 3
           /\ synth[a].latestBase = synth[a].firstBase
           /\ synth[a].first # synth[b].first

\* C20: every synthesized row has Tn <= Tavg <= Tx and 0 <= ff_avg <= ff_x,
\* and each of its fields that the validator has a range for lies in it.
C20_RowConsistentAndInRange ==
    \A target \in DOMAIN synth :
        LET row == synth[target].latest
        IN  /\ row["Tn"].p <= row["Tavg"].p
            /\ row["Tavg"].p <= row["Tx"].p
            /\ 0 <= row["ff_avg"].p
            /\ row["ff_avg"].p <= row["ff_x"].p
            /\ \A f \in DOMAIN row :
                   <<f>> \in DOMAIN VALID_RANGES =>
                       /\ row[f].q = 1
                       /\ Tenths(VALID_RANGES[<<f>>][1]) <= row[f].p
                       /\ row[f].p <= Tenths(VALID_RANGES[<<f>>][2])

C20_Witness ==
    \E a \in DOMAIN synth :
        /\ month_stats # NoStats
        /\ month_stats[a.month]["Tavg"] = Frac(550, 1)
        /\ synth[a].latest["Tavg"] = Frac(500, 1)
        /\ synth[a].latest["Tn"] = Frac(500, 1)
        /\ synth[a].latest["ff_x"] = Frac(300, 1)
        /\ synth[a].latest["ff_avg"] = Frac(300, 1)

(***************************************************************************)
(* estimate_rain_hours on drawn arguments                                  *)
(***************************************************************************)
\* one call of estimate_rain_hours with the arguments drawn for it
EstimateRainHours ==
    /\ hours.month # 0
    /\ ~hours.out.some
    /\ hours' = [hours EXCEPT
                    !.out = Some(estimate_rain_hours(hours.prob, hours.mm, hours.month))]
    /\ UNCHANGED <<month_stats, rng, synth, calls, forecast>>
    /\ UNCHANGED threadVars
    /\ UNCHANGED loaderVars
    /\ UNCHANGED storeVars

WindowInit ==
    /\ StoreIdle
    /\ LoaderIdle
    /\ month_stats = NoStats
    /\ rng = <<>>
    /\ synth = <<>>
    /\ calls = 0
    /\ forecast = NoForecast
    /\ ThreadsIdle
    /\ hours \in [prob : WindowProbs, mm : Volumes, month : 1 .. 12, out : {None}]

WindowNext == EstimateRainHours

WindowSpec == WindowInit /\ [][WindowNext]_vars

\* the window the latest call returned
Returned == hours.out.v

\* C21: start, end and peak are all absent, with the no-rain description,
\* exactly when the probability is below 0.3; from 0.3 on all three are
\* present, start < peak < end, each within 0..23.
C21_WindowPresentFromThreshold ==
    hours.out.some =>
        /\ hours.prob < 30 <=>
               /\ Returned.start = None
               /\ Returned.stop = None
               /\ Returned.peak = None
               /\ Returned.description = <<"Tidak ada hujan">>
        /\ hours.prob >= 30 =>
               /\ Returned.start.some /\ Returned.stop.some /\ Returned.peak.some
               /\ Returned.start.v < Returned.peak.v
               /\ Returned.peak.v < Returned.stop.v
               /\ {Returned.start.v, Returned.peak.v, Returned.stop.v} \subseteq 0 .. 23

C21_Witness ==
    /\ hours.out.some
    /\ hours.prob = 30
    /\ hours.mm = None
    /\ hours.month = 7
    /\ Returned = Window(Some(14), Some(16), Some(15),
                         <<"Hujan diperkirakan", 14, 16, "WIB">>)

\* the volume class of the claim: heavy above 40 mm, moderate from 15 to 40
\* mm inclusive, light below 15 mm or absent
VolumeClass(mm) ==
    IF mm.some /\ mm.v > 400 THEN "heavy"
    ELSE IF mm.some /\ mm.v >= 150 THEN "moderate"
    ELSE "light"

Width(w) == w.stop.v - w.start.v

Rank(class) == CASE class = "heavy" -> 3 [] class = "moderate" -> 2 [] OTHER -> 1

\* C22: for probability >= 0.3 the window depends on the volume only through
\* its class (heavy > 40, moderate 15..40 inclusive, light < 15 or absent),
\* and a heavier class has a wider window that starts no later.
C22_WindowByVolumeClass ==
    (hours.out.some /\ hours.prob >= 30) =>
        \A mm \in Volumes :
            LET other == estimate_rain_hours(hours.prob, mm, hours.month)
            IN  /\ VolumeClass(mm) = VolumeClass(hours.mm) => other = Returned
                /\ Rank(VolumeClass(mm)) > Rank(VolumeClass(hours.mm)) =>
                       /\ Width(other) > Width(Returned)
                       /\ other.start.v <= Returned.start.v

StationsOf(t) == { t.rows[i].c[<<"station_id">>].s : i \in 1 .. Len(t.rows) }

\* the file lines (orig) of the rows of a table
LinesOf(t) == { t.rows[i].orig : i \in 1 .. Len(t.rows) }

\* the calls of filter_data that filter by station only
ByStationOnly ==
    { args \in FilterArgs :
        args.date_start = NoArg /\ args.date_end = NoArg /\ ~args.rain_only }

\* C24: with a non-empty station list filter_data returns the rows whose
\* station is requested and occurs in the data, so none when no requested
\* station occurs; with no filter argument it returns every row; the table
\* it was given stays as engineer_features returned it.
C24_FilterByStation ==
    feat # NoTable =>
        /\ \A args \in ByStationOnly :
               LET out == filter_data(feat, args)
                   asked == args.station_ids \cap StationsOf(feat)
               IN  /\ out.columns = feat.columns
                   /\ args.station_ids # {} =>
                          /\ LinesOf(out) =
                                 { feat.rows[i].orig : i \in
                                     { k \in 1 .. Len(feat.rows) :
                                         feat.rows[k].c[<<"station_id">>].s \in asked } }
                          /\ \A i \in 1 .. Len(out.rows) :
                                 out.rows[i].c[<<"station_id">>].s \in args.station_ids
                          /\ asked = {} => out.rows = <<>>
                   /\ args.station_ids = {} => out.rows = feat.rows
        /\ filtered # NoTable =>
               /\ feat = engineer_features(cleaned.table)
               /\ \E args \in FilterArgs : filtered = filter_data(feat, args)

C24_Witness ==
    /\ Len(feat.rows) = 2
    /\ StationsOf(feat) = { <<"A", "-", "1">>, <<"b", "_", "6">> }
    /\ filtered =
           filter_data(feat, Args({<<"A", "-", "1">>, <<"ZZ">>, <<"9", ";", " ", "D">>},
                                  NoArg, NoArg, FALSE))
    /\ Len(filtered.rows) = 1
    /\ filter_data(feat, Args({<<"ZZ">>}, NoArg, NoArg, FALSE)).rows = <<>>

\* C25: the session's profile is the one built from the session's dataset:
\* both absent, or the profile is get_monthly_stats of the loaded dataset.
C25_ProfileMatchesDataset ==
    IF feat = NoTable
    THEN month_stats = NoStats
    ELSE month_stats # NoStats /\ month_stats = get_monthly_stats(feat)

\* C26: a step changes an artifact only if it is a training (train, or
\* auto_train_if_needed with no classifier cached) that got past its checks
\* and reached persistence; no step removes the classifier;
\* auto_train_if_needed never raises.
C26_ArtifactsChangeOnlyByTraining ==
    [][ /\ (clf' # clf \/ reg' # reg) =>
               /\ res'.op \in {"train", "auto_train"}
               /\ res'.raised = "none"
               /\ res'.op = "auto_train" => ~exists(clf)
               /\ runs' = runs + 1
        /\ res'.op \in {"predict", "is_trained", "checksum"} =>
               (clf' = clf /\ reg' = reg)
        /\ exists(clf) => exists(clf')
        /\ res'.op = "auto_train" => res'.raised = "none"
      ]_vars

C26_Witness ==
    /\ res.op = "auto_train"
    /\ dataFile.loads
    /\ runs = 1
    /\ clf = File(1, "0600")
    /\ reg = File(0, "0600")
    /\ lastRainy = 2

\* C27: with a classifier persisted, a forecast for any target date returns
\* the probability, volume, rain window and synthesized features without
\* raising.
C27_ForecastCompletes ==
    (forecast # NoForecast /\ exists(clf)) =>
        /\ forecast.raised = "none"
        /\ forecast.out.some

\* C28: _infer never modifies the stored MonthlyProfile. Every step that makes
\* an _infer call leaves the session's profile as it was, and the base values
\* of the call are the profile's entry for the target month (or the built-in
\* defaults when there is no profile), never a row an earlier call returned.
C28_ProfileReadOnly ==
    [][calls' > calls =>
          /\ month_stats' = month_stats
          /\ \A t \in DOMAIN synth' :
                 synth'[t].latestAt = calls' =>
                     synth'[t].latestBase =
                         IF month_stats # NoStats THEN month_stats[t.month]
                                                  ELSE DEFAULT_BASE]_vars

\* a second call for a date whose month has a profile entry: the call
\* returned a perturbed row and the entry still holds the base values
C28_Witness ==
    /\ calls >= 2
    /\ month_stats # NoStats
    /\ \E t \in DOMAIN synth :
           /\ synth[t].latestAt > synth[t].firstAt
           /\ synth[t].firstBase = month_stats[t.month]
           /\ synth[t].latestBase = month_stats[t.month]
           /\ synth[t].first # month_stats[t.month]
           /\ synth[t].latest # month_stats[t.month]

\* the featured rows whose RR the input gave empty, as text, or outside
\* [0, 500] mm
MissingRR ==
    LET src == InputColumns
    IN  { i \in Positions(feat) :
            LET given == Given(src, feat.rows[i], <<"RR">>)
            IN  \/ given.k # "num"
                \/ given.v < Lo(<<"RR">>)
                \/ given.v > Hi(<<"RR">>) }

\* C29: a row whose RR is missing (empty in the input, non-numeric, or
\* clamped because it was out of range) is never counted as rainy: its RR is
\* missing in the featured table, its is_rainy label is 0, the classifier's
\* target for it is 0, the regressor's mask leaves it out, and the profile's
\* rain probability counts it in the denominator but not in the numerator.
C29_MissingRainfallIsDry ==
    (feat # NoTable /\ <<"RR">> \in feat.columns) =>
        LET rr(i)  == feat.rows[i].c[<<"RR">>]
            known  == Positions(feat) \ MissingRR
            rainy  == { i \in known : rr(i).v > 5 }
            frame  == FrameOf(feat)
        IN  /\ \A i \in MissingRR :
                   /\ rr(i) = NaN
                   /\ feat.rows[i].c[<<"is_rainy">>] = Whole(0)
                   /\ y_c(rr(i)) = 0
                   /\ ~rain_mask(rr(i))
            /\ frame.rainy = Cardinality(rainy)
            /\ frame.dry = Len(feat.rows) - Cardinality(rainy)
            /\ Len(feat.rows) > 0 =>
                   rain_prob(feat, Positions(feat)) =
                       Frac(Cardinality(rainy), Len(feat.rows))

\* a featured table of one rainy day and one day whose RR was out of range
\* (or empty, or text): a rain probability of one half
C29_Witness ==
    /\ feat # NoTable
    /\ <<"RR">> \in feat.columns
    /\ Len(feat.rows) = 2
    /\ Cardinality(MissingRR) = 1
    /\ \E i \in MissingRR :
           /\ Given(InputColumns, feat.rows[i], <<"RR">>) = Num(Lo(<<"RR">>) - 1)
           /\ feat.rows[i].c[<<"is_rainy">>] = Whole(0)
    /\ FrameOf(feat).rainy = 1
    /\ FrameOf(feat).dry = 1
    /\ rain_prob(feat, Positions(feat)) = Frac(1, 2)

(***************************************************************************)
(* models/trainer.py: train() in one thread, predict() in others.  Each    *)
(* file operation of the two functions is a step of its own.               *)
(***************************************************************************)
MaxReaders == 2

\* the train() calls of the training thread that reach persistence
MaxTrainings == 1

\* the frames the training thread is called with
RaceFrames ==
    { df \in Frames :
        /\ df.columns \in { FEATURE_COLS \cup {"date", "station_id", "RR", "is_rainy"},
                            {"date", "station_id"} }
        /\ df.rainy \in { 2, MIN_RAIN_ROWS + 1 }
        /\ df.dry = 2 }

\* the probabilities a loaded classifier returns
RaceProbs == { 40, 60 }

\* a training that persists the classifier first
DUMP_ORDER_clf_first == << "clf", "reg" >>

\* train() reaches joblib.dump(reg, REG_PATH) before joblib.dump(clf, CLF_PATH)
DUMP_ORDER == << "reg", "clf" >>

\* the files this call of train() writes, in the order it writes them
dumps(df) ==
    SelectSeq(DUMP_ORDER, LAMBDA path : path = "clf" \/ TrainsRegressor(df))

\* joblib.dump has opened the path for writing and has not closed it yet
Writing(path) ==
    /\ training.pc = "writing"
    /\ dumps(training.df)[training.done + 1] = path

\* _load(path) in another thread: None for an absent path, an error for a
\* file that is being written, else the pipeline
load_in_flight(f, path) ==
    IF Writing(path) THEN [raised |-> TRUE, obj |-> None]
    ELSE [raised |-> FALSE, obj |-> _load(f)]

\* train(df) up to the first joblib.dump: the checks and the fits
TrainCall(df, fitOk) ==
    /\ training.pc = "idle"
    /\ runs < MaxTrainings
    /\ fitOk => FitCanSucceed(df)
    /\ LET t == train_body(df, fitOk, TRUE)
       IN  IF t.raised # "none"
           THEN /\ res' = Result("train", t.raised, 0, None, None)
                /\ UNCHANGED training
           ELSE /\ training' = [training EXCEPT !.pc = "ready", !.run = runs + 1,
                                                !.done = 0, !.df = df,
                                                !.first = ~exists(clf) /\ ~exists(reg)]
                /\ UNCHANGED res
    /\ UNCHANGED <<clf, reg, runs, lastRainy, dataFile, readers>>
    /\ UNCHANGED loaderVars
    /\ UNCHANGED appVars

\* joblib.dump opens the next file and truncates it
DumpOpen ==
    /\ training.pc = "ready"
    /\ training.done < Len(dumps(training.df))
    /\ training' = [training EXCEPT !.pc = "writing"]
    /\ UNCHANGED <<readers>>
    /\ UNCHANGED storeVars
    /\ UNCHANGED loaderVars
    /\ UNCHANGED appVars

\* joblib.dump has written the pipeline and closes the file
DumpClose ==
    /\ training.pc = "writing"
    /\ LET path == dumps(training.df)[training.done + 1]
       IN  /\ clf' = IF path = "clf" THEN dump(clf, training.run) ELSE clf
           /\ reg' = IF path = "reg" THEN dump(reg, training.run) ELSE reg
           /\ training' = [training EXCEPT
                              !.pc = "ready", !.done = @ + 1,
                              !.withReg = IF path = "reg" THEN @ \cup {training.run}
                                                          ELSE @]
    /\ UNCHANGED <<runs, lastRainy, dataFile, res, readers>>
    /\ UNCHANGED loaderVars
    /\ UNCHANGED appVars

\* the two chmod calls inside try/except, and return metrics
TrainReturn(chmodOk) ==
    /\ training.pc = "ready"
    /\ training.done = Len(dumps(training.df))
    /\ clf' = IF chmodOk THEN chmod(clf) ELSE clf
    /\ reg' = IF chmodOk /\ exists(reg) THEN chmod(reg) ELSE reg
    /\ runs' = training.run
    /\ lastRainy' = training.df.rainy
    /\ res' = Result("train", "none", 0, None,
                     IF TrainsRegressor(training.df) THEN Some(1) ELSE None)
    /\ training' = [training EXCEPT !.pc = "idle"]
    /\ UNCHANGED <<dataFile, readers>>
    /\ UNCHANGED loaderVars
    /\ UNCHANGED appVars

\* what a predict() call has loaded so far; during is the training run
\* begun by the time it finished, sameRun that the classifier it loaded is
\* of the run in `training`, and firstRun that this run began with an empty
\* cache directory
Reader(pc, prob, c, g, raised) ==
    [pc |-> pc, prob |-> prob, clf |-> c, reg |-> g, raised |-> raised,
     during |-> training.run,
     sameRun |-> c.some /\ c.v = training.run,
     firstRun |-> c.some /\ c.v = training.run /\ training.first,
     expectReg |-> c.some /\ c.v = training.run /\ TrainsRegressor(training.df)]

\* predict(row) in a thread of its own, up to prob: clf = _load(CLF_PATH),
\* the RuntimeError for no classifier, clf.predict_proba
PredictCall(p) ==
    /\ Len(readers) < MaxReaders
    /\ LET l == load_in_flight(clf, "clf")
       IN  readers' =
               Append(readers,
                      IF l.raised THEN Reader("done", 0, None, None, "LoadError")
                      ELSE IF ~l.obj.some
                      THEN Reader("done", 0, None, None, "RuntimeError")
                      ELSE IF p > HALF THEN Reader("proba", p, l.obj, None, "none")
                      ELSE Reader("done", p, l.obj, None, "none"))
    /\ UNCHANGED training
    /\ UNCHANGED storeVars
    /\ UNCHANGED loaderVars
    /\ UNCHANGED appVars

\* the rest of predict(row) when prob > 0.5: reg = _load(REG_PATH)
PredictLoadReg(i) ==
    /\ i \in 1 .. Len(readers)
    /\ readers[i].pc = "proba"
    /\ LET l == load_in_flight(reg, "reg")
       IN  readers' =
               [readers EXCEPT ![i] =
                   [@ EXCEPT !.pc = "done",
                             !.reg = l.obj,
                             !.raised = IF l.raised THEN "LoadError" ELSE "none",
                             !.during = training.run]]
    /\ UNCHANGED training
    /\ UNCHANGED storeVars
    /\ UNCHANGED loaderVars
    /\ UNCHANGED appVars

\* the cache directory before the training thread starts: empty, the two
\* artifacts of an earlier run, or the classifier of an earlier run that
\* fitted no regressor
RaceInit ==
    /\ clf \in { NoFile, File(0, "0600") }
    /\ reg \in { NoFile, File(0, "0600") }
    /\ exists(reg) => exists(clf)
    /\ runs = 0
    /\ lastRainy = 0
    /\ dataFile = NoData
    /\ res = NoResult
    /\ LoaderIdle
    /\ month_stats = NoStats
    /\ rng = <<>>
    /\ synth = <<>>
    /\ calls = 0
    /\ hours = NoHours
    /\ forecast = NoForecast
    /\ training = [NoTraining EXCEPT !.withReg = IF exists(reg) THEN {0} ELSE {}]
    /\ readers = <<>>

RaceNext ==
    \/ \E df \in RaceFrames, fitOk \in BOOLEAN : TrainCall(df, fitOk)
    \/ DumpOpen
    \/ DumpClose
    \/ \E chmodOk \in BOOLEAN : TrainReturn(chmodOk)
    \/ \E p \in RaceProbs : PredictCall(p)
    \/ \E i \in 1 .. MaxReaders : PredictLoadReg(i)

RaceSpec == RaceInit /\ [][RaceNext]_vars

\* the predict() calls that returned a result
Predicted ==
    { i \in 1 .. Len(readers) : readers[i].pc = "done" /\ readers[i].raised = "none" }

\* C30, as first stated: under any interleaving of one train() call with
\* concurrent predict() calls, a predict() never combines a classifier and a
\* regressor produced by different training runs; during a retrain it uses
\* either both old or both new artifacts.  (Stated for classifiers whose run
\* persisted a regressor.)
C30_NeverCombinesRuns ==
    \A i \in Predicted :
        LET r == readers[i]
        IN  (r.reg.some /\ r.clf.v \in training.withReg) => r.reg = r.clf

\* C30: during a first training (the cache directory was empty), a predict()
\* that finds the classifier and needs the regressor finds that run's
\* regressor whenever the run fitted one, and no file half-written: train()
\* persists the regressor before the classifier.  A predict() that combines
\* artifacts of two runs has either an older classifier than regressor (it
\* loaded the classifier before a retrain overwrote it) or a newer classifier
\* whose run, like every run since the regressor's, persisted no regressor.
C30_FirstTrainingConsistent ==
    \A i \in 1 .. Len(readers) :
        LET r == readers[i]
        IN  /\ (r.pc = "done" /\ r.firstRun /\ r.during = r.clf.v /\ r.prob > HALF) =>
                   /\ r.raised = "none"
                   /\ r.reg = IF r.expectReg THEN r.clf ELSE None
            /\ (i \in Predicted /\ r.reg.some /\ r.reg # r.clf) =>
                   /\ ~(r.firstRun /\ r.during = r.clf.v)
                   /\ \/ r.clf.v < r.reg.v
                      \/ \A k \in (r.reg.v + 1) .. r.clf.v : k \notin training.withReg

\* a predict() that ran while the first training had persisted both files
\* and not yet returned: it used that run's classifier and regressor
C30_Witness ==
    /\ training.pc = "ready"
    /\ training.first
    /\ training.run = 1
    /\ runs = 0
    /\ \E i \in Predicted :
           /\ readers[i].firstRun
           /\ readers[i].prob > HALF
           /\ readers[i].clf = Some(1)
           /\ readers[i].reg = Some(1)
    /\ \E i \in 1 .. Len(readers) : readers[i].raised = "RuntimeError"

====
